---- MODULE Spec2Model ----
(***************************************************************************)
(* State-machine model of the print-city backend: the scheduler and its    *)
(* run lock, the pipeline runs, odds ingest with delta hashing, consensus  *)
(* pick generation, closing-line-value computation and the market unlock.  *)
(* Each subsystem has its own specification over the shared variables.     *)
(***************************************************************************)
EXTENDS Integers, Sequences, FiniteSets, TLC

VARIABLES
    run_lock,        \* value of the semaphore core/scheduler.py:_run_lock
    job_pc,          \* position of each scheduler job inside _run_job
    http_pc,         \* position of each POST /pipeline/run request
    pipeline_runs,   \* the PipelineRun table, in insertion order
    skip_log,        \* number of "Skipping ... job" log lines per job
    calls,           \* job ticks and HTTP runs started so far (bounded)
    settings,        \* the Settings read from the environment at start (config.py)
    now,             \* the clock: every handler call reads a later datetime.now
    games,           \* the Game table, keyed by event_id (unique)
    odds_groups,     \* the OddsGroup table, keyed by (game, market, bookmaker, point)
    odds_snapshots,  \* the OddsSnapshot table (append only)
    picks,           \* the Pick table in id order: picks[i] is the row with id i
    pick_scores,     \* the PickScore table, keyed by pick_id (one pqs_version)
    clv_sport_stats, \* the ClvSportStat table (unique per scope and as_of)
    calibration_runs,\* the CalibrationRun table in id order
    response         \* what the last handler call returned or raised

sched_vars == <<run_lock, job_pc, http_pc, pipeline_runs, skip_log, calls>>

odds_vars == <<games, odds_groups, odds_snapshots>>

picks_vars == <<picks, pick_scores>>

eval_vars == <<clv_sport_stats, calibration_runs>>

db_vars == <<settings, now, odds_vars, picks_vars, eval_vars, response>>

vars == <<sched_vars, db_vars>>

NULL == "null"

\* a nullable column or JSON field: None is the empty sequence, a value v is <<v>>
None == <<>>

Some(v) == <<v>>

(***************************************************************************)
(* Bounds of the model.                                                    *)
(***************************************************************************)
MaxCalls == 3

(***************************************************************************)
(* Scheduler: three interval jobs share one semaphore (scheduler.py).      *)
(***************************************************************************)
Jobs == {"ingest", "picks", "clv"}

HttpReqs == {"r1", "r2"}

RunTypes == {"cycle", "ingest", "picks", "clv"}

CycleSteps == <<"ingest", "picks", "clv">>

IdleReq == [at |-> "idle", run_type |-> NULL]

\* positions of _run_job between acquire (line 58) and release (line 68)
LockedSection == {"acquired", "running", "returned", "raised"}

\* PipelineRun(run_type, status) as written by _log_run
PipelineRun(run_type, status) == [run_type |-> run_type, status |-> status]

log_run(runs, run_type, status) == Append(runs, PipelineRun(run_type, status))

\* an acquire whose result is ignored: every tick enters the locked section
sem_try_acquire_ignored(value) == TRUE

\* _run_lock.acquire(blocking=False), line 58: succeeds iff the value is positive
sem_try_acquire(value) == value > 0

sem_after_acquire(value) == value - 1

\* threading.Semaphore.release(): increments the value (unbounded semaphore)
sem_release(value) == value + 1

SchedInit ==
    /\ run_lock = 1
    /\ job_pc = [j \in Jobs |-> "idle"]
    /\ http_pc = [h \in HttpReqs |-> IdleReq]
    /\ pipeline_runs = <<>>
    /\ skip_log = [j \in Jobs |-> 0]
    /\ calls = 0

\* _run_job lines 58-60: a tick tries the lock without blocking; a failed
\* acquire logs the skip and returns
run_job_tick_acquired(j) ==
    /\ job_pc[j] = "idle"
    /\ calls < MaxCalls
    /\ sem_try_acquire(run_lock)
    /\ run_lock' = sem_after_acquire(run_lock)
    /\ job_pc' = [job_pc EXCEPT ![j] = "acquired"]
    /\ calls' = calls + 1
    /\ UNCHANGED <<http_pc, pipeline_runs, skip_log>>

\* a skip path that runs the finally clause: the skipped tick releases the lock
skip_lock_effect_releasing(value) == value + 1

\* what a tick that finds the lock held does to the lock before it returns
\* (lines 58-60 are outside the try/finally): nothing
skip_lock_effect(value) == value

run_job_tick_skipped(j) ==
    /\ job_pc[j] = "idle"
    /\ calls < MaxCalls
    /\ ~sem_try_acquire(run_lock)
    /\ skip_log' = [skip_log EXCEPT ![j] = @ + 1]
    /\ run_lock' = skip_lock_effect(run_lock)
    /\ calls' = calls + 1
    /\ UNCHANGED <<job_pc, http_pc, pipeline_runs>>

\* _run_job line 63: SessionLocal() opens the session, or raises
run_job_open_session(j) ==
    /\ job_pc[j] = "acquired"
    /\ \E opened \in BOOLEAN :
          job_pc' = [job_pc EXCEPT ![j] = IF opened THEN "running" ELSE "raised"]
    /\ UNCHANGED <<run_lock, http_pc, pipeline_runs, skip_log, calls>>

\* _run_job line 64: run_and_log runs the job's run function and logs one
\* PipelineRun row: status ok when it returned, status error (and re-raise)
\* when it raised
run_job_run_and_log(j) ==
    /\ job_pc[j] = "running"
    /\ \E ok \in BOOLEAN :
          /\ pipeline_runs' = log_run(pipeline_runs, j, IF ok THEN "ok" ELSE "error")
          /\ job_pc' = [job_pc EXCEPT ![j] = IF ok THEN "returned" ELSE "raised"]
    /\ UNCHANGED <<run_lock, http_pc, skip_log, calls>>

\* a release placed after run_and_log instead of in finally: an exception keeps the lock
release_on_exit_no_finally(value, exit) == IF exit = "raised" THEN value ELSE sem_release(value)

\* the lock value after _run_job's finally clause (line 68), by exit path
release_on_exit(value, exit) == sem_release(value)

\* _run_job lines 65-68: except logs the failure, finally releases the lock
run_job_release(j) ==
    /\ job_pc[j] \in {"returned", "raised"}
    /\ run_lock' = release_on_exit(run_lock, job_pc[j])
    /\ job_pc' = [job_pc EXCEPT ![j] = "idle"]
    /\ UNCHANGED <<http_pc, pipeline_runs, skip_log, calls>>

(***************************************************************************)
(* POST /pipeline/run (api/pipeline.py): runs in the request context.      *)
(***************************************************************************)
\* what pipeline_run does with the run lock before running (lines 26-29)
http_lock_guard(value) == TRUE

http_lock_after(value) == value

\* pipeline_run lines 26-29: dispatch on run_type
pipeline_run_start(h) ==
    /\ http_pc[h].at = "idle"
    /\ http_lock_guard(run_lock)
    /\ calls < MaxCalls
    /\ calls' = calls + 1
    /\ run_lock' = http_lock_after(run_lock)
    /\ \E rt \in RunTypes :
          http_pc' = [http_pc EXCEPT ![h] =
                        [at |-> IF rt = "cycle" THEN "run_cycle" ELSE "run_and_log",
                         run_type |-> rt]]
    /\ UNCHANGED <<job_pc, pipeline_runs, skip_log>>

\* run_and_log called from the request: one row, then the response (or a 500)
pipeline_run_run_and_log(h) ==
    /\ http_pc[h].at = "run_and_log"
    /\ \E ok \in BOOLEAN :
          pipeline_runs' = log_run(pipeline_runs, http_pc[h].run_type,
                                   IF ok THEN "ok" ELSE "error")
    /\ http_pc' = [http_pc EXCEPT ![h] = IdleReq]
    /\ UNCHANGED <<run_lock, job_pc, skip_log, calls>>

\* the rows run_cycle logs: one per step, then the cycle row (error iff a step failed)
cycle_rows(oks) ==
    [i \in 1..(Len(CycleSteps) + 1) |->
        IF i <= Len(CycleSteps)
        THEN PipelineRun(CycleSteps[i], IF oks[i] THEN "ok" ELSE "error")
        ELSE PipelineRun("cycle", IF \A k \in 1..Len(CycleSteps) : oks[k] THEN "ok" ELSE "error")]

pipeline_run_cycle(h) ==
    /\ http_pc[h].at = "run_cycle"
    /\ \E oks \in [1..Len(CycleSteps) -> BOOLEAN] :
          pipeline_runs' = pipeline_runs \o cycle_rows(oks)
    /\ http_pc' = [http_pc EXCEPT ![h] = IdleReq]
    /\ UNCHANGED <<run_lock, job_pc, skip_log, calls>>

SchedNext ==
    \/ \E j \in Jobs : run_job_tick_acquired(j)
    \/ \E j \in Jobs : run_job_tick_skipped(j)
    \/ \E j \in Jobs : run_job_open_session(j)
    \/ \E j \in Jobs : run_job_run_and_log(j)
    \/ \E j \in Jobs : run_job_release(j)
    \/ \E h \in HttpReqs : pipeline_run_start(h)
    \/ \E h \in HttpReqs : pipeline_run_run_and_log(h)
    \/ \E h \in HttpReqs : pipeline_run_cycle(h)

(***************************************************************************)
(* Claims about the scheduler and the run lock.                            *)
(***************************************************************************)
JobsInLockedSection == {j \in Jobs : job_pc[j] \in LockedSection}

HttpRunning == {h \in HttpReqs : http_pc[h].at \in {"run_and_log", "run_cycle"}}

\* C1: under every interleaving of the ticks of the ingest, picks and clv jobs,
\* at most one job is between the acquire and the release of _run_job.
C1_JobsMutuallyExclusive == Cardinality(JobsInLockedSection) <= 1

\* a job is executing run_and_log while another job's tick was skipped
C1_Witness ==
    \E j \in Jobs : /\ job_pc[j] = "running"
                    /\ \E k \in Jobs \ {j} : skip_log[k] > 0

\* C2 (as claimed): a run triggered by POST /pipeline/run never executes
\* run_and_log or run_cycle while a scheduler job is in its locked section or
\* while another HTTP-triggered run executes.
C2_HttpRunsExcluded ==
    Cardinality(JobsInLockedSection) + Cardinality(HttpRunning) <= 1

\* C3: the lock value is 0 while a job is in the locked section and back to 1
\* as soon as no job is: every exit path (return, exception in run_and_log,
\* failure to open the session) released it exactly once, so the next tick
\* can acquire it.
C3_LockReleasedOnEveryExit ==
    run_lock = (IF JobsInLockedSection = {} THEN 1 ELSE 0)

\* a tick acquired the lock after an earlier job left through the
\* session-failure path (the only exit that leaves no row and no log line)
C3_Witness ==
    /\ calls = 2
    /\ pipeline_runs = <<>>
    /\ \A j \in Jobs : skip_log[j] = 0
    /\ \A h \in HttpReqs : http_pc[h] = IdleReq
    /\ \E j \in Jobs : job_pc[j] = "acquired"

\* C4: a tick that finds the lock held (it logs the skip) returns at once:
\* the job stays idle, no pipeline action runs, no PipelineRun row is written,
\* the lock is not released; and a job enters the locked section only at a
\* tick of its own that finds the lock free (a skipped tick is not queued).
C4_SkippedTickIsInert ==
    [][/\ \A j \in Jobs :
            skip_log'[j] # skip_log[j] =>
                /\ job_pc[j] = "idle" /\ job_pc' = job_pc
                /\ run_lock' = run_lock
                /\ pipeline_runs' = pipeline_runs
                /\ http_pc' = http_pc
       /\ \A j \in Jobs :
            (job_pc[j] = "idle" /\ job_pc'[j] # "idle") =>
                /\ job_pc'[j] = "acquired"
                /\ calls' = calls + 1
                /\ run_lock = 1 /\ run_lock' = 0
                /\ skip_log' = skip_log]_vars

\* a job whose tick was skipped runs at a later tick of its own
C4_Witness ==
    \E j \in Jobs : skip_log[j] > 0 /\ job_pc[j] = "running"

(***************************************************************************)
(* Numbers.  Probabilities, edges and scores are fixed-point integers in   *)
(* units of 1/ProbScale and decimal odds in units of 1/DecScale, rounded    *)
(* toward zero, the way the Numeric columns of models.py round to scale.    *)
(***************************************************************************)
ProbScale == 10000

DecScale == 1000

\* list(...) of a comprehension: the sequence with its elements evaluated
list(f) == f \o <<>>

RECURSIVE SumSeq(_)
SumSeq(s) == IF s = <<>> THEN 0 ELSE Head(s) + SumSeq(Tail(s))

Abs(x) == IF x < 0 THEN -x ELSE x

Min2(a, b) == IF a <= b THEN a ELSE b

Max2(a, b) == IF a >= b THEN a ELSE b

\* core/math.py: american odds below 100 in absolute value raise ValueError
american_valid(american) == Abs(american) >= 100

american_to_decimal(american) ==
    IF american > 0
    THEN DecScale + (american * DecScale) \div 100
    ELSE DecScale + (100 * DecScale) \div Abs(american)

american_to_implied_prob(american) ==
    IF american > 0
    THEN (100 * ProbScale) \div (american + 100)
    ELSE (Abs(american) * ProbScale) \div (Abs(american) + 100)

\* remove_vig: each probability divided by the total
remove_vig(probs) ==
    LET total == SumSeq(probs)
    IN  list([i \in 1..Len(probs) |-> (probs[i] * ProbScale) \div total])

\* compute_fair_probs_for_group raises unless the devigged probabilities sum
\* to one within epsilon; here epsilon is the rounding of one unit per term
fair_probs_ok(probs) ==
    /\ probs # <<>>
    /\ SumSeq(probs) > 0
    /\ Abs(SumSeq(remove_vig(probs)) - ProbScale) <= Len(probs)

(***************************************************************************)
(* Ordering.  Python's sorted() is stable; strings compare by code point.   *)
(***************************************************************************)
\* the rank, in code-point order, of the strings the code sorts
str_rank(s) ==
    CASE s = "AWAY" -> 1 [] s = "DRAW" -> 2 [] s = "HOME" -> 3 [] s = "OVER" -> 4
      [] s = "UNDER" -> 5 [] s = "basketball_nba" -> 6 [] s = "betmgm" -> 7
      [] s = "draftkings" -> 8 [] s = "e1" -> 9 [] s = "e2" -> 10
      [] s = "fanduel" -> 11 [] s = "h2h" -> 12 [] s = "icehockey_nhl" -> 13
      [] s = "pinnacle" -> 14 [] s = "spreads" -> 15 [] s = "totals" -> 16

str_less(a, b) == str_rank(a) < str_rank(b)

\* sorted(seq, key=...) where ranks[i] is the key of seq[i]: stable
sorted_by(seq, ranks) ==
    LET n == Len(seq)
        pos(i) == 1 + Cardinality({j \in 1..n : \/ ranks[j] < ranks[i]
                                                \/ ranks[j] = ranks[i] /\ j < i})
    IN  list([k \in 1..n |-> seq[CHOOSE i \in 1..n : pos(i) = k]])

RECURSIVE concat_all(_)
concat_all(seqs) == IF seqs = <<>> THEN <<>> ELSE Head(seqs) \o concat_all(Tail(seqs))

\* the elements of a sequence
Range(seq) == {seq[i] : i \in 1..Len(seq)}

(***************************************************************************)
(* Odds ingest with delta hashing (services/ingest.py, api/odds.py).       *)
(***************************************************************************)
\* the provider's JSON: events, bookmakers, markets, outcomes (odds_api.py)
Outcome(name, price, point) == [name |-> name, price |-> price, point |-> point]

\* an outcome the provider sends without a price: outcome.get("price") is None
UnpricedOutcome(name, point) == [name |-> name, point |-> point]

Market(key, outcomes) == [key |-> key, outcomes |-> outcomes]

Book(key, markets) == [key |-> key, markets |-> markets]

\* an ISO timestamp: wall-clock reading and UTC offset
IsoTime(clock, utc_offset) == [clock |-> clock, utc_offset |-> utc_offset]

Event(id, sport_key, commence_time, bookmakers) ==
    [id |-> id, sport_key |-> sport_key, commence_time |-> commence_time,
     home_team |-> "Celtics", away_team |-> "Heat", bookmakers |-> bookmakers]

\* str.strip().lower() on the names that occur in payloads
lower(name) ==
    CASE name = "Celtics" -> "celtics"
      [] name = "Heat" -> "heat"
      [] name = "Over" -> "over"
      [] name = "Under" -> "under"
      [] name = "Draw" -> "draw"
      [] OTHER -> name

SideError == "ValueError"

\* Side has no DRAW member (domain/enums.py), so the soccer draw branch of
\* normalize_side raises AttributeError where it reads Side.DRAW
normalize_side(event_home, event_away, market_key, outcome_name, sport_key) ==
    IF market_key \in {"h2h", "spreads"}
    THEN IF lower(outcome_name) = lower(event_home) THEN "HOME"
         ELSE IF lower(outcome_name) = lower(event_away) THEN "AWAY"
         ELSE SideError
    ELSE IF market_key = "totals"
    THEN IF lower(outcome_name) = "over" THEN "OVER"
         ELSE IF lower(outcome_name) = "under" THEN "UNDER"
         ELSE SideError
    ELSE SideError

\* parse_commence_time_to_utc: the instant in UTC
parse_commence_time_to_utc(commence_time) == commence_time.clock - commence_time.utc_offset

\* dict.get(key): the entry's value, None when the key is missing; the values
\* of the entries read this way are themselves None or Some(v)
dict_get(d, key) == IF key \in DOMAIN d THEN d[key] ELSE None

\* hashlib.sha256 of the canonical JSON: equal digests iff equal JSON
sha256_json(normalized) == [sha256 |-> normalized]

\* the hash covers event, market, bookmaker, point and the sides sorted by
\* side with american and decimal only
build_normalized_group_representation(event_id, market_key, bookmaker, point, side_prices) ==
    sha256_json(
        [event_id |-> event_id, market_key |-> market_key, bookmaker |-> bookmaker,
         point |-> point,
         sides |-> LET sides == list([i \in 1..Len(side_prices) |->
                                        [side |-> side_prices[i].side,
                                         american |-> dict_get(side_prices[i], "american"),
                                         decimal |-> dict_get(side_prices[i], "decimal")]])
                   IN  sorted_by(sides, list([i \in 1..Len(sides) |-> str_rank(sides[i].side)]))])

\* lines 159-179: the entry appended to grouped_outcomes for one outcome
\* american, decimal and implied_prob are None for an outcome without a price
side_price(event, market_key, outcome) ==
    LET priced == "price" \in DOMAIN outcome
        valid == priced => american_valid(outcome.price)
    IN  [market_key |-> market_key,
         side |-> normalize_side(event.home_team, event.away_team, market_key,
                                 outcome.name, event.sport_key),
         american |-> IF priced THEN Some(outcome.price) ELSE None,
         valid |-> valid,
         decimal |-> IF priced /\ valid THEN Some(american_to_decimal(outcome.price))
                     ELSE None,
         implied_prob |-> IF priced /\ valid
                          THEN Some(american_to_implied_prob(outcome.price)) ELSE None,
         point |-> outcome.point]

\* normalize_side or american_to_decimal raised for this outcome
side_price_raises(sp) == sp.side = SideError \/ ~sp.valid

\* lines 154-179: the outcomes of a book's markets, markets sorted by key and
\* filtered by settings.odds_markets
book_side_prices(event, book) ==
    LET markets == sorted_by(book.markets,
                             list([i \in 1..Len(book.markets) |-> str_rank(book.markets[i].key)]))
        kept == SelectSeq(markets, LAMBDA m : m.key \in settings.odds_markets)
    IN  concat_all(list([i \in 1..Len(kept) |->
                      list([k \in 1..Len(kept[i].outcomes) |->
                          side_price(event, kept[i].key, kept[i].outcomes[k])])]))

\* sort_group_key: a missing point sorts as -inf
point_less(p, q) == IF p = None THEN q # None ELSE q # None /\ p[1] < q[1]

group_key_less(a, b) ==
    \/ str_rank(a[1]) < str_rank(b[1])
    \/ a[1] = b[1] /\ point_less(a[2], b[2])

\* lines 181-183: the (market_key, point) groups of one book, sorted
sorted_group_keys(sps) ==
    LET keys == {<<sps[i].market_key, sps[i].point>> : i \in 1..Len(sps)}
        pos(k) == 1 + Cardinality({k2 \in keys : group_key_less(k2, k)})
    IN  list([n \in 1..Cardinality(keys) |-> CHOOSE k \in keys : pos(k) = n])

Game(event) ==
    [sport_key |-> event.sport_key,
     commence_time |-> parse_commence_time_to_utc(event.commence_time),
     home_team |-> event.home_team, away_team |-> event.away_team]

OddsSnapshot(game_id, captured_at, bookmaker, sp, fair_prob, group_hash) ==
    [game_id |-> game_id, captured_at |-> captured_at, market_key |-> sp.market_key,
     bookmaker |-> bookmaker, side |-> sp.side, point |-> sp.point,
     american |-> sp.american[1], decimal |-> sp.decimal[1],
     implied_prob |-> sp.implied_prob[1], fair_prob |-> fair_prob,
     group_hash |-> group_hash]

OddsGroup(last_hash, last_captured_at) ==
    [last_hash |-> last_hash, last_captured_at |-> last_captured_at]

\* lines 117-123
ingest_summary ==
    [games_upserted |-> 0, groups_changed |-> 0, snapshot_rows_inserted |-> 0,
     groups_skipped |-> 0, errors_count |-> 0]

\* the comparison of line 201 without the hash: every group counts as changed
group_unchanged_never(existing_hash, group_hash) == FALSE

\* line 201: the group is skipped when its hash equals the stored last_hash
group_unchanged(existing_hash, group_hash) == existing_hash = group_hash

\* lines 184-239: one group of one book.  st is the session: the three
\* tables with the pending writes, the summary, and whether the event raised.
\* implied_probs (line 205) leaves out the sides without a price, so the loop
\* of line 208 adds the rows of the sides sorted before the first such side
\* and then raises (Decimal(str(None)), or zip(strict=True) running out of
\* fair_probs), before the OddsGroup of lines 225-238 is written
ingest_group(st, event, bookmaker, gkey, sps, captured_at) ==
    LET members == SelectSeq(sps, LAMBDA sp : <<sp.market_key, sp.point>> = gkey)
        side_prices == sorted_by(members,
                                 list([i \in 1..Len(members) |-> str_rank(members[i].side)]))
        group_hash == build_normalized_group_representation(
                          event.id, gkey[1], bookmaker, gkey[2], side_prices)
        k == <<event.id, gkey[1], bookmaker, gkey[2]>>
        priced == SelectSeq(side_prices, LAMBDA sp : sp.implied_prob # None)
        implied_probs == list([i \in 1..Len(priced) |-> priced[i].implied_prob[1]])
        fair_probs == remove_vig(implied_probs)
        added == Cardinality({i \in 1..Len(side_prices) :
                                 \A j \in 1..i : side_prices[j].implied_prob # None})
    IN  IF k \in DOMAIN st.odds_groups
           /\ group_unchanged(st.odds_groups[k].last_hash, group_hash)
        THEN [st EXCEPT !.summary.groups_skipped = @ + 1]
        ELSE IF ~fair_probs_ok(implied_probs)
        THEN [st EXCEPT !.raised = TRUE]
        ELSE IF added < Len(side_prices)
        THEN [st EXCEPT
                !.odds_snapshots = @ \cup
                    {OddsSnapshot(event.id, captured_at, bookmaker, side_prices[i],
                                  fair_probs[i], group_hash) : i \in 1..added},
                !.summary.snapshot_rows_inserted = @ + added,
                !.raised = TRUE]
        ELSE [st EXCEPT
                !.odds_snapshots = @ \cup
                    {OddsSnapshot(event.id, captured_at, bookmaker, side_prices[i],
                                  fair_probs[i], group_hash) : i \in 1..Len(side_prices)},
                !.odds_groups = (k :> OddsGroup(group_hash, captured_at)) @@ @,
                !.summary.snapshot_rows_inserted = @ + Len(side_prices),
                !.summary.groups_changed = @ + 1]

RECURSIVE ingest_groups(_, _, _, _, _, _)
ingest_groups(st, event, bookmaker, gkeys, sps, captured_at) ==
    IF gkeys = <<>> \/ st.raised THEN st
    ELSE ingest_groups(ingest_group(st, event, bookmaker, Head(gkeys), sps, captured_at),
                       event, bookmaker, Tail(gkeys), sps, captured_at)

\* lines 149-239: one bookmaker of the event; an outcome that cannot be
\* normalised raises before any group of the book is written
ingest_book(st, event, book, captured_at) ==
    LET sps == book_side_prices(event, book)
    IN  IF \E i \in 1..Len(sps) : side_price_raises(sps[i])
        THEN [st EXCEPT !.raised = TRUE]
        ELSE ingest_groups(st, event, book.key, sorted_group_keys(sps), sps, captured_at)

RECURSIVE ingest_books(_, _, _, _)
ingest_books(st, event, books, captured_at) ==
    IF books = <<>> \/ st.raised THEN st
    ELSE ingest_books(ingest_book(st, event, Head(books), captured_at),
                      event, Tail(books), captured_at)

\* lines 128-244: one event inside its try block; the except clause counts
\* the error and re-raises only when delta_hash_strict is on
ingest_event(st, event, captured_at) ==
    LET upserted == [st EXCEPT !.games = (event.id :> Game(event)) @@ @,
                               !.summary.games_upserted = @ + 1]
        books == sorted_by(event.bookmakers,
                           list([i \in 1..Len(event.bookmakers) |->
                                    str_rank(event.bookmakers[i].key)]))
        kept == SelectSeq(books, LAMBDA b : \/ settings.bookmaker_whitelist = {}
                                            \/ b.key \in settings.bookmaker_whitelist)
        done == ingest_books(upserted, event, kept, captured_at)
    IN  IF done.raised
        THEN [done EXCEPT !.summary.errors_count = @ + 1,
                          !.raised = settings.delta_hash_strict]
        ELSE done

RECURSIVE ingest_events(_, _, _)
ingest_events(st, events, captured_at) ==
    IF events = <<>> \/ st.raised THEN st
    ELSE ingest_events(ingest_event(st, Head(events), captured_at), Tail(events), captured_at)

\* the session a handler starts with: the committed tables
Session ==
    [games |-> games, odds_groups |-> odds_groups, odds_snapshots |-> odds_snapshots,
     summary |-> ingest_summary, raised |-> FALSE]

\* ingest_odds_for_sport lines 105-247, up to the commit: the sport must be
\* whitelisted, all rows of the call share one captured_at
ingest_odds_for_sport(st, sport_key, events, captured_at) ==
    IF sport_key \notin settings.odds_sports_whitelist
    THEN [st EXCEPT !.raised = TRUE]
    ELSE ingest_events(st, events, captured_at)

\* POST /odds/ingest (api/odds.py lines 16-24): the summary after the commit,
\* or an error response, the request's session being discarded uncommitted
ingest_once(sport_key, events) ==
    /\ now' = now + 1
    /\ LET done == ingest_odds_for_sport(Session, sport_key, events, now + 1)
       IN  /\ games' = IF done.raised THEN games ELSE done.games
           /\ odds_groups' = IF done.raised THEN odds_groups ELSE done.odds_groups
           /\ odds_snapshots' = IF done.raised THEN odds_snapshots ELSE done.odds_snapshots
           /\ response' = [op |-> "ingest_once", sport_key |-> sport_key,
                           events |-> events, raised |-> done.raised,
                           summary |-> done.summary]
    /\ UNCHANGED <<settings, eval_vars, picks_vars, sched_vars>>

(***************************************************************************)
(* Settings (config.py).  The fields the model reads, at their defaults;   *)
(* each specification varies the ones its claims depend on.                *)
(***************************************************************************)
DefaultSettings ==
    [odds_sports_whitelist |-> {"basketball_nba"},
     odds_markets |-> {"h2h", "spreads", "totals"},
     bookmaker_whitelist |-> {},
     sharp_books |-> {"pinnacle", "circa", "betonlineag", "bovada"},
     sharp_weight |-> 2,
     standard_weight |-> 1,
     consensus_min_books |-> 5,
     pick_min_ev |-> (15 * ProbScale) \div 1000,
     pick_min_books |-> 5,
     bankroll_paper |-> 10000,
     kelly_multiplier |-> (25 * ProbScale) \div 100,
     kelly_max_cap |-> (5 * ProbScale) \div 100,
     delta_hash_strict |-> TRUE,
     sports_autorun |-> <<>>,
     markets_autorun |-> <<"h2h">>,
     markets_unlock_clv_min |-> 100,
     markets_unlock_mode |-> "gate",
     pqs_version |-> "pqs_v1",
     pqs_enabled |-> TRUE,
     sport_default_min_pqs |-> (65 * ProbScale) \div 100,
     sport_default_max_picks |-> 3,
     run_max_picks_total |-> 8,
     min_books |-> 6,
     sharp_book_min |-> 1,
     max_price_dispersion |-> (8 * ProbScale) \div 100,
     min_agreement |-> (60 * ProbScale) \div 100,
     min_minutes_to_start |-> 15,
     time_decay_half_life_min |-> 240,
     ev_floor |-> 0,
     kelly_cap |-> ProbScale \div 100,
     pqs_weight_ev |-> (30 * ProbScale) \div 100,
     pqs_weight_agreement |-> (20 * ProbScale) \div 100,
     pqs_weight_dispersion |-> (15 * ProbScale) \div 100,
     pqs_weight_coverage |-> (10 * ProbScale) \div 100,
     pqs_weight_sharp_presence |-> (10 * ProbScale) \div 100,
     pqs_weight_clv_prior |-> (10 * ProbScale) \div 100,
     pqs_weight_time_to_start |-> (5 * ProbScale) \div 100]

NoResponse == [op |-> "none"]

OddsInit ==
    /\ now = 0
    /\ games = <<>>
    /\ odds_groups = <<>>
    /\ odds_snapshots = {}
    /\ picks = <<>>
    /\ pick_scores = <<>> /\ clv_sport_stats = {} /\ calibration_runs = <<>>
    /\ response = NoResponse

(***************************************************************************)
(* The ingest specification: POST /odds/ingest called with provider        *)
(* payloads that quote one or two events at two bookmakers.                *)
(***************************************************************************)
MaxIngests == 3

H2hA == Market("h2h", <<Outcome("Heat", 102, None), Outcome("Celtics", -120, None)>>)

H2hA_reordered ==
    Market("h2h", <<Outcome("celtics", -120, None), Outcome("heat", 102, None)>>)

H2hB == Market("h2h", <<Outcome("Heat", 110, None), Outcome("Celtics", -130, None)>>)

Totals == Market("totals", <<Outcome("Under", -105, Some(2105)), Outcome("Over", -115, Some(2105))>>)

\* the provider quotes a spread as one outcome per team with opposite points
Spreads == Market("spreads", <<Outcome("Celtics", -110, Some(-35)), Outcome("Heat", -110, Some(35))>>)

\* the home team quoted without a price
H2hHomeUnpriced ==
    Market("h2h", <<UnpricedOutcome("Celtics", None), Outcome("Heat", 102, None)>>)

\* an outcome name that is neither team
H2hUnmappable == Market("h2h", <<Outcome("Heat", 102, None), Outcome("Draw", 300, None)>>)

FanduelChoices ==
    {<<Book("fanduel", <<H2hA>>)>>, <<Book("fanduel", <<H2hA_reordered>>)>>,
     <<Book("fanduel", <<H2hB>>)>>, <<Book("fanduel", <<H2hHomeUnpriced>>)>>}

DraftkingsChoices ==
    {<<>>, <<Book("draftkings", <<Totals, Spreads>>)>>,
     <<Book("draftkings", <<H2hUnmappable>>)>>}

FirstEvent(bookmakers) == Event("e1", "basketball_nba", IsoTime(5, 0), bookmakers)

SecondEvent == Event("e2", "basketball_nba", IsoTime(4, -1), <<Book("fanduel", <<H2hB>>)>>)

\* one event quoted by fanduel and possibly draftkings, or two events
IngestPayloads ==
    {<<FirstEvent(fd \o dk)>> : fd \in FanduelChoices, dk \in DraftkingsChoices}
    \cup {<<FirstEvent(<<Book("fanduel", <<H2hA>>)>> \o dk), SecondEvent>> :
              dk \in DraftkingsChoices}

RequestedSports == {"basketball_nba", "tennis_atp"}

IngestInit ==
    /\ SchedInit
    /\ OddsInit
    /\ settings \in {[DefaultSettings EXCEPT !.delta_hash_strict = strict] :
                        strict \in BOOLEAN}

IngestNext ==
    /\ now < MaxIngests
    /\ \E sport_key \in RequestedSports :
          \E events \in IF sport_key \in settings.odds_sports_whitelist
                        THEN IngestPayloads ELSE {<<>>} :
             ingest_once(sport_key, events)

IngestSpec == IngestInit /\ [][IngestNext]_vars

(***************************************************************************)
(* Claims about the ingest.                                                *)
(***************************************************************************)
\* the (event, market, bookmaker, point) groups a payload quotes, counted on
\* the payload itself: books and markets that pass the settings' filters
payload_groups(events) ==
    UNION {UNION {UNION {{<<e.id, m.key, b.key, o.point>> : o \in Range(m.outcomes)} :
                            m \in {m2 \in Range(b.markets) : m2.key \in settings.odds_markets}} :
                     b \in {b2 \in Range(e.bookmakers) :
                               \/ settings.bookmaker_whitelist = {}
                               \/ b2.key \in settings.bookmaker_whitelist}} :
              e \in Range(events)}

\* this step is an ingest call that returned, made right after an ingest call
\* that returned, for the same sport and with the same provider payload
SameIngestTwice ==
    /\ response.op = "ingest_once" /\ ~response.raised
    /\ response'.op = "ingest_once" /\ ~response'.raised
    /\ now' = now + 1
    /\ response'.sport_key = response.sport_key
    /\ response'.events = response.events

SecondIngestWritesNothing ==
    /\ odds_snapshots' = odds_snapshots
    /\ odds_groups' = odds_groups
    /\ response'.summary.groups_changed = 0
    /\ response'.summary.snapshot_rows_inserted = 0

GroupOf(r) == <<r.game_id, r.market_key, r.bookmaker, r.point>>

sorted_by_less(seq, Less(_, _)) ==
    LET n == Len(seq)
        pos(i) == 1 + Cardinality({j \in 1..n : \/ Less(seq[j], seq[i])
                                                \/ ~Less(seq[i], seq[j]) /\ j < i})
    IN  list([k \in 1..n |-> seq[CHOOSE i \in 1..n : pos(i) = k]])

\* the elements of a finite set as a sequence ordered by the total order Less
sorted_set(S, Less(_, _)) ==
    LET pos(x) == 1 + Cardinality({y \in S : Less(y, x)})
    IN  list([k \in 1..Cardinality(S) |-> CHOOSE x \in S : pos(x) = k])

SetMax(S) == CHOOSE x \in S : \A y \in S : y <= x

SetMin(S) == CHOOSE x \in S : \A y \in S : x <= y

\* _required_sides (consensus.py lines 69-73)
required_sides(market_key) ==
    IF market_key \in {"h2h", "spreads"} THEN {"HOME", "AWAY"} ELSE {"OVER", "UNDER"}

\* the snapshots of a sport's market, joined with their game (lines 97-98)
market_snapshots(st, sport_key, market_key) ==
    {r \in st.odds_snapshots :
        /\ r.market_key = market_key
        /\ r.game_id \in DOMAIN st.games
        /\ st.games[r.game_id].sport_key = sport_key}

\* a selection that takes the latest captured_at of any side
complete_timestamps_any_side(rows, r) ==
    {x.captured_at : x \in {y \in rows : /\ y.game_id = r.game_id
                                          /\ y.bookmaker = r.bookmaker
                                          /\ y.point = r.point}}

\* lines 88-125: per (game, bookmaker, point) the latest captured_at at which
\* at least two distinct sides were captured
complete_timestamps(rows, r) ==
    {t \in {x.captured_at : x \in rows} :
        Cardinality({x.side : x \in {y \in rows : /\ y.game_id = r.game_id
                                                   /\ y.bookmaker = r.bookmaker
                                                   /\ y.point = r.point
                                                   /\ y.captured_at = t}}) >= 2}

\* get_latest_group_rows: the rows captured at their partition's latest
\* complete timestamp
get_latest_group_rows(st, sport_key, market_key) ==
    LET rows == market_snapshots(st, sport_key, market_key)
    IN  {r \in rows : /\ complete_timestamps(rows, r) # {}
                      /\ r.captured_at = SetMax(complete_timestamps(rows, r))}

\* build_market_views: the view keys (event, market, point) in sorted order
view_key_less(a, b) ==
    \/ str_less(a[1], b[1])
    \/ a[1] = b[1] /\ point_less(a[3], b[3])

view_keys(rows) ==
    sorted_set({<<r.game_id, r.market_key, r.point>> : r \in rows}, view_key_less)

view_rows(rows, key) ==
    {r \in rows : r.game_id = key[1] /\ r.market_key = key[2] /\ r.point = key[3]}

\* lines 192-200: the bookmakers of a view that quote every required side
complete_books(rows, key) ==
    {b \in {r.bookmaker : r \in view_rows(rows, key)} :
        required_sides(key[2]) \subseteq
            {r.side : r \in {x \in view_rows(rows, key) : x.bookmaker = b}}}

\* the row a complete book contributes for a side (by_book[bookmaker][side])
book_side_row(rows, key, book, side) ==
    CHOOSE r \in view_rows(rows, key) : r.bookmaker = book /\ r.side = side

is_sharp(book) == book \in settings.sharp_books

book_weight(book) == IF is_sharp(book) THEN settings.sharp_weight ELSE settings.standard_weight

\* core/math.py consensus_fair_prob: weighted mean per side, then remove_vig;
\* sides in the order of the first book's keys, which is sorted by name
consensus_fair_prob(rows, key, books, sides) ==
    LET total_weight == SumSeq(list([i \in 1..Len(books) |-> book_weight(books[i])]))
        weighted(side) ==
            SumSeq(list([i \in 1..Len(books) |->
                book_side_row(rows, key, books[i], side).fair_prob * book_weight(books[i])]))
    IN  remove_vig(list([k \in 1..Len(sides) |-> weighted(sides[k]) \div total_weight]))

\* a best price whose ties go to the last bookmaker by name
best_row_last_book(rows, key, side) ==
    LET cands == {r \in {x \in rows : /\ x.game_id = key[1] /\ x.market_key = key[2]
                                       /\ x.point = key[3]} : r.side = side}
        top == CHOOSE d \in {r.decimal : r \in cands} : \A r \in cands : r.decimal <= d
    IN  CHOOSE r \in cands :
            /\ r.decimal = top
            /\ \A x \in cands : x.decimal = top => str_rank(x.bookmaker) <= str_rank(r.bookmaker)

\* lines 266-275: the best decimal of a side over the view's rows in
\* (bookmaker, side, captured_at) order; a later row replaces the best only
\* when strictly greater, so ties go to the first bookmaker by name
best_row(rows, key, side) ==
    LET cands == {r \in view_rows(rows, key) : r.side = side}
        top == SetMax({r.decimal : r \in cands})
    IN  CHOOSE r \in cands :
            /\ r.decimal = top
            /\ \A x \in cands : x.decimal = top => str_rank(r.bookmaker) <= str_rank(x.bookmaker)

\* lines 260-263: probabilities that drift from a total of 1 by more than
\* consensus_eps are divided by their total
renormalize(probs) ==
    LET total == SumSeq(probs)
    IN  IF total = ProbScale THEN probs
        ELSE list([i \in 1..Len(probs) |-> (probs[i] * ProbScale) \div total])

\* compute_consensus_for_view: the ConsensusResult of one view
compute_consensus_for_view(st, rows, key) ==
    LET books == sorted_set(complete_books(rows, key), str_less)
        sides == sorted_set(required_sides(key[2]), str_less)
        quoted == {r.side : r \in view_rows(rows, key)}
    IN  [event_id |-> key[1], market_key |-> key[2], point |-> key[3],
         commence_time |-> st.games[key[1]].commence_time,
         sides |-> sides,
         books |-> books,
         consensus_probs |->
             IF Len(books) < settings.consensus_min_books THEN None
             ELSE Some(renormalize(consensus_fair_prob(rows, key, books, sides))),
         included_books |-> Len(books),
         sharp_books_included |-> Cardinality({b \in Range(books) : is_sharp(b)}),
         best |-> [s \in quoted |-> best_row(rows, key, s)],
         captured_at_min |-> SetMin({r.captured_at : r \in view_rows(rows, key)}),
         captured_at_max |-> SetMax({r.captured_at : r \in view_rows(rows, key)})]

(***************************************************************************)
(* Expected value, Kelly stake, features and the pick quality score        *)
(* (core/math.py, intelligence/features.py, intelligence/pqs.py).          *)
(***************************************************************************)
clamp(v) == Max2(0, Min2(ProbScale, v))

\* ev_percent: fair_prob * best_decimal - 1
ev_percent(fair_prob, best_decimal) == (fair_prob * best_decimal) \div DecScale - ProbScale

\* a Kelly fraction without the cap
kelly_fraction_uncapped(fair_prob, best_decimal, kelly_multiplier, max_cap) ==
    LET b == best_decimal - DecScale
        q == ProbScale - fair_prob
        full_kelly == (b * fair_prob - q * DecScale) \div b
    IN  IF full_kelly <= 0 THEN 0
        ELSE (kelly_multiplier * full_kelly) \div ProbScale

\* kelly_fraction: ((b p - q) / b) scaled by the multiplier and capped, 0 when
\* the full Kelly fraction is not positive
kelly_fraction(fair_prob, best_decimal, kelly_multiplier, max_cap) ==
    LET b == best_decimal - DecScale
        q == ProbScale - fair_prob
        full_kelly == (b * fair_prob - q * DecScale) \div b
    IN  IF full_kelly <= 0 THEN 0
        ELSE Min2(max_cap, (kelly_multiplier * full_kelly) \div ProbScale)

opposite_side(side) ==
    CASE side = "HOME" -> "AWAY" [] side = "AWAY" -> "HOME"
      [] side = "OVER" -> "UNDER" [] OTHER -> "OVER"

\* _percentile with q given in tenths: linear interpolation between ranks
percentile(sorted_values, tenths) ==
    IF Len(sorted_values) = 1 THEN sorted_values[1]
    ELSE LET position == (Len(sorted_values) - 1) * tenths
             lower_index == position \div 10
             upper_index == Min2(lower_index + 1, Len(sorted_values) - 1)
             lo == sorted_values[lower_index + 1]
             hi == sorted_values[upper_index + 1]
         IN  lo + ((hi - lo) * (position % 10)) \div 10

\* build_dispersion_inputs and compute_price_dispersion: the spread between
\* the 90th and 10th percentile of the books' devigged probability of the
\* side; 1.0 with fewer than three books
compute_price_dispersion(rows, key, books, side) ==
    LET probabilities ==
            list([i \in 1..Len(books) |->
                LET side_decimal == book_side_row(rows, key, books[i], side).decimal
                    opposite_decimal ==
                        book_side_row(rows, key, books[i], opposite_side(side)).decimal
                IN  clamp((opposite_decimal * ProbScale) \div (side_decimal + opposite_decimal))])
        ordered == sorted_by_less(probabilities, LAMBDA x, y : x < y)
    IN  IF Len(probabilities) < 3 THEN ProbScale
        ELSE clamp(percentile(ordered, 9) - percentile(ordered, 1))

\* compute_features: the PickFeatures the score reads
compute_features(rows, result, side, ev, kelly, now_utc) ==
    LET dispersion == compute_price_dispersion(
                          rows, <<result.event_id, result.market_key, result.point>>,
                          result.books, side)
    IN  [ev |-> ev, kelly_fraction |-> kelly,
         book_count |-> result.included_books,
         sharp_book_count |-> result.sharp_books_included,
         agreement_strength |-> clamp(ProbScale - 2 * dispersion),
         price_dispersion |-> dispersion,
         time_to_start_minutes |-> result.commence_time - now_utc]

\* Settings fields that pqs.py reads and config.py does not define; the
\* specification has a missing override fall back to its base setting
min_minutes_to_start_relaxed == settings.min_minutes_to_start

max_price_dispersion_hard_ceiling == settings.max_price_dispersion

max_price_dispersion_book_count_8 == settings.max_price_dispersion

max_price_dispersion_sharp_ev == settings.max_price_dispersion

ncaab_default_max_picks == settings.sport_default_max_picks

\* the relaxed start gate applies from this book count and below this
\* dispersion; without the overrides it is never looser than the base gate
relaxed_start_gate(features) == FALSE

\* adaptive_thresholds with prior = None (no ClvSportStat row is published
\* by the operations of this model): the defaults of the sport
adaptive_thresholds(sport_key) ==
    [min_pqs |-> settings.sport_default_min_pqs,
     max_picks |-> IF sport_key = "basketball_ncaab" THEN ncaab_default_max_picks
                   ELSE settings.sport_default_max_picks]

adaptive_max_price_dispersion(features) ==
    LET base == settings.max_price_dispersion
        wide == IF features.book_count >= 8
                THEN Max2(base, max_price_dispersion_book_count_8) ELSE base
    IN  IF features.sharp_book_count >= 2 /\ features.ev >= (5 * ProbScale) \div 100
        THEN Max2(wide, max_price_dispersion_sharp_ev) ELSE wide

adaptive_min_minutes_to_start(features) ==
    IF relaxed_start_gate(features) THEN min_minutes_to_start_relaxed
    ELSE settings.min_minutes_to_start

PQSResult(pqs, decision, drop_reason) ==
    [pqs |-> pqs, decision |-> decision, drop_reason |-> drop_reason]

\* score_pick lines 84-124: the weighted score against the adaptive minimum
weighted_score(features, sport_key) ==
    LET adaptive_max_price == adaptive_max_price_dispersion(features)
        ev_score == clamp(features.ev * 20)
        agreement_score == clamp(features.agreement_strength)
        dispersion_score ==
            IF adaptive_max_price = 0 THEN ProbScale
            ELSE clamp(ProbScale - (features.price_dispersion * ProbScale) \div adaptive_max_price)
        coverage_score == clamp((features.book_count * ProbScale)
                                    \div Max2(settings.min_books, 10))
        sharp_score == IF features.sharp_book_count >= settings.sharp_book_min
                       THEN ProbScale ELSE 0
        prior_score == ProbScale \div 2
        time_score == clamp((features.time_to_start_minutes * ProbScale)
                                \div Max2(settings.time_decay_half_life_min, 1))
    IN  (settings.pqs_weight_ev * ev_score
         + settings.pqs_weight_agreement * agreement_score
         + settings.pqs_weight_dispersion * dispersion_score
         + settings.pqs_weight_coverage * coverage_score
         + settings.pqs_weight_sharp_presence * sharp_score
         + settings.pqs_weight_clv_prior * prior_score
         + settings.pqs_weight_time_to_start * time_score) \div ProbScale

\* score_pick: the hard gates in order, then the score
score_pick(features, sport_key) ==
    IF features.book_count < settings.min_books
    THEN PQSResult(0, "DROP", Some("min_books"))
    ELSE IF features.sharp_book_count < settings.sharp_book_min
    THEN PQSResult(0, "DROP", Some("sharp_book_min"))
    ELSE IF features.time_to_start_minutes < 0
    THEN PQSResult(0, "DROP", Some("min_minutes_to_start"))
    ELSE IF features.time_to_start_minutes < adaptive_min_minutes_to_start(features)
    THEN PQSResult(0, "DROP", Some("min_minutes_to_start"))
    ELSE IF features.price_dispersion > max_price_dispersion_hard_ceiling
    THEN PQSResult(0, "DROP", Some("max_price_dispersion"))
    ELSE IF features.price_dispersion > adaptive_max_price_dispersion(features)
    THEN PQSResult(0, "DROP", Some("max_price_dispersion"))
    ELSE IF features.agreement_strength < settings.min_agreement
    THEN PQSResult(0, "DROP", Some("min_agreement"))
    ELSE IF features.ev < settings.ev_floor
    THEN PQSResult(0, "DROP", Some("ev_floor"))
    ELSE LET pqs == weighted_score(features, sport_key)
         IN  IF pqs >= adaptive_thresholds(sport_key).min_pqs
             THEN PQSResult(clamp(pqs), "KEEP", None)
             ELSE PQSResult(clamp(pqs), "DROP", Some("below_min_pqs"))

(***************************************************************************)
(* Pick generation (services/picks.py).                                    *)
(***************************************************************************)
\* _base_summary
base_summary ==
    [total_views |-> 0, candidates |-> 0, inserted |-> 0, scored |-> 0, kept |-> 0,
     dropped |-> 0, skipped_existing |-> 0, skipped_low_ev |-> 0,
     skipped_insufficient_books |-> 0]

\* lines 129-145: a new Pick; the closing-line fields start null
Pick(result, side, probability, best, ev, kelly, created_at) ==
    [game_id |-> result.event_id, created_at |-> created_at,
     market_key |-> result.market_key, side |-> side, point |-> result.point,
     source |-> "CONSENSUS", consensus_prob |-> probability,
     best_decimal |-> best.decimal, best_book |-> best.bookmaker,
     ev |-> ev, kelly_fraction |-> kelly, stake |-> settings.bankroll_paper * kelly,
     consensus_books |-> result.included_books,
     sharp_books |-> result.sharp_books_included,
     captured_at_min |-> result.captured_at_min,
     captured_at_max |-> result.captured_at_max,
     closing_consensus_prob |-> None, closing_book_decimal |-> None,
     closing_book_implied_prob |-> None, market_clv |-> None, book_clv |-> None,
     clv_computed_at |-> None]

\* an existence test that finds nothing: every candidate is inserted again
existing_pick_ids_none(pk, result, side, best) == {}

\* lines 114-122: the ids of the picks on the candidate's uniqueness key
existing_pick_ids(pk, result, side, best) ==
    {i \in 1..Len(pk) :
        /\ pk[i].game_id = result.event_id
        /\ pk[i].market_key = result.market_key
        /\ pk[i].side = side
        /\ pk[i].best_book = best.bookmaker
        /\ pk[i].captured_at_max = result.captured_at_max
        /\ pk[i].point = result.point}

PickScore(pick_id, scored_at, pqs_result, thresholds) ==
    [pick_id |-> pick_id, scored_at |-> scored_at, version |-> settings.pqs_version,
     pqs |-> pqs_result.pqs, decision |-> pqs_result.decision,
     drop_reason |-> pqs_result.drop_reason,
     adaptive_min_pqs |-> thresholds.min_pqs,
     adaptive_max_picks |-> thresholds.max_picks]

\* lines 164-214: the score row of the pick, written unless the pick already
\* has one of this version, and the kept candidate.  g holds the pick already
record_score(g, result, sport_key, side, pick_id, now_utc, pqs_result, thresholds) ==
    [g EXCEPT
       !.pick_scores =
           IF pick_id \in DOMAIN @ THEN @
           ELSE (pick_id :> PickScore(pick_id, now_utc, pqs_result, thresholds)) @@ @,
       !.kept_candidates =
           IF pqs_result.decision = "KEEP"
           THEN Append(@, [pqs |-> pqs_result.pqs, sport_key |-> sport_key,
                           market_key |-> result.market_key,
                           event_id |-> result.event_id, side |-> side,
                           created_at |-> g.picks[pick_id].created_at,
                           pick_id |-> pick_id,
                           adaptive_max_picks |-> thresholds.max_picks])
           ELSE @,
       !.summary =
           [@ EXCEPT
              !.scored = @ + 1,
              !.kept = IF pqs_result.decision = "KEEP" THEN @ + 1 ELSE @,
              !.dropped = IF pqs_result.decision = "KEEP" THEN @ ELSE @ + 1]]

\* lines 94-214: one side of one consensus result.  g carries the session's
\* picks and scores, the summary, the kept candidates and the new pick ids
generate_candidate(g, rows, result, sport_key, side, probability, now_utc) ==
    LET best == result.best[side]
        ev == ev_percent(probability, best.decimal)
        kelly == Min2(settings.kelly_cap,
                      kelly_fraction(probability, best.decimal,
                                     settings.kelly_multiplier, settings.kelly_max_cap))
        found == existing_pick_ids(g.picks, result, side, best)
        pick_id == IF found # {} THEN SetMin(found) ELSE Len(g.picks) + 1
        counted == [g.summary EXCEPT !.candidates = @ + 1]
    IN  IF side \notin DOMAIN result.best THEN g
        ELSE IF ev < settings.pick_min_ev
        THEN [g EXCEPT !.summary = [counted EXCEPT !.skipped_low_ev = @ + 1]]
        ELSE IF kelly <= 0 THEN [g EXCEPT !.summary = counted]
        ELSE record_score(
                 [g EXCEPT
                    !.picks = IF found # {} THEN @
                              ELSE Append(@, Pick(result, side, probability, best,
                                                  ev, kelly, now_utc)),
                    !.new_pick_ids = IF found # {} THEN @ ELSE @ \cup {pick_id},
                    !.summary = [counted EXCEPT
                                   !.skipped_existing = IF found # {} THEN @ + 1 ELSE @]],
                 result, sport_key, side, pick_id, now_utc,
                 score_pick(compute_features(rows, result, side, ev, kelly, now_utc),
                            sport_key),
                 adaptive_thresholds(sport_key))

RECURSIVE generate_sides(_, _, _, _, _, _)
generate_sides(g, rows, result, sport_key, k, now_utc) ==
    IF k > Len(result.sides) THEN g
    ELSE generate_sides(
             generate_candidate(g, rows, result, sport_key, result.sides[k],
                                result.consensus_probs[1][k], now_utc),
             rows, result, sport_key, k + 1, now_utc)

\* lines 80-92: a result without consensus or with too few books is skipped
generate_result(g, rows, result, sport_key, now_utc) ==
    IF result.consensus_probs = None \/ result.included_books < settings.pick_min_books
    THEN [g EXCEPT !.summary.skipped_insufficient_books = @ + 1]
    ELSE generate_sides(g, rows, result, sport_key, 1, now_utc)

RECURSIVE generate_results(_, _, _, _, _)
generate_results(g, rows, results, sport_key, now_utc) ==
    IF results = <<>> THEN g
    ELSE generate_results(generate_result(g, rows, Head(results), sport_key, now_utc),
                          rows, Tail(results), sport_key, now_utc)

\* an order on pqs alone: candidates of equal pqs stay in input order
keep_order_by_pqs(a, b) == a.pqs > b.pqs

\* the sort key of lines 43-46 and 219-222:
\* (-pqs, sport, market, event, created_at, pick_id)
keep_order_less(a, b) ==
    \/ a.pqs > b.pqs
    \/ /\ a.pqs = b.pqs
       /\ \/ str_less(a.sport_key, b.sport_key)
          \/ /\ a.sport_key = b.sport_key
             /\ \/ str_less(a.market_key, b.market_key)
                \/ /\ a.market_key = b.market_key
                   /\ \/ str_less(a.event_id, b.event_id)
                      \/ /\ a.event_id = b.event_id
                         /\ \/ a.created_at < b.created_at
                            \/ /\ a.created_at = b.created_at
                               /\ a.pick_id < b.pick_id

\* lines 49-56: one pass over the sorted candidates; a sport at its cap is
\* passed over, the run's total cap ends the pass
RECURSIVE select_keep_loop(_, _, _, _)
select_keep_loop(kept_sorted, per_sport, final_keep_ids, run_max_picks_total) ==
    IF kept_sorted = <<>> THEN final_keep_ids
    ELSE LET item == Head(kept_sorted)
             max_sport == Max2(1, item.adaptive_max_picks)
             used == IF item.sport_key \in DOMAIN per_sport
                     THEN per_sport[item.sport_key] ELSE 0
         IN  IF used >= max_sport
             THEN select_keep_loop(Tail(kept_sorted), per_sport, final_keep_ids,
                                   run_max_picks_total)
             ELSE IF Cardinality(final_keep_ids) >= run_max_picks_total
             THEN final_keep_ids
             ELSE select_keep_loop(Tail(kept_sorted),
                                   (item.sport_key :> (used + 1)) @@ per_sport,
                                   final_keep_ids \cup {item.pick_id},
                                   run_max_picks_total)

\* _select_final_keep_ids
select_final_keep_ids(kept_candidates, run_max_picks_total) ==
    select_keep_loop(sorted_by_less(kept_candidates, keep_order_less), <<>>, {},
                     run_max_picks_total)

\* no throttle: the kept candidates outside the final set stay KEEP
throttle_none(scores, kept_candidates, final_keep_ids) == scores

\* a throttle that rewrites the decision and leaves drop_reason as it was
throttle_without_reason(scores, kept_candidates, final_keep_ids) ==
    LET throttled == {c.pick_id : c \in Range(kept_candidates)} \ final_keep_ids
    IN  IF ~settings.pqs_enabled THEN scores
        ELSE [id \in DOMAIN scores |->
                 IF id \in throttled THEN [scores[id] EXCEPT !.decision = "DROP"]
                 ELSE scores[id]]

\* lines 218-231: the kept candidates outside the final set have their score
\* row rewritten to DROP / cap_throttle
throttle(scores, kept_candidates, final_keep_ids) ==
    LET throttled == {c.pick_id : c \in Range(kept_candidates)} \ final_keep_ids
    IN  IF ~settings.pqs_enabled THEN scores
        ELSE [id \in DOMAIN scores |->
                 IF id \in throttled
                 THEN [scores[id] EXCEPT !.decision = "DROP",
                                         !.drop_reason = Some("cap_throttle")]
                 ELSE scores[id]]

\* what the generator starts from: the session's Pick and PickScore rows
Generation(pk, sc) ==
    [picks |-> pk, pick_scores |-> sc, summary |-> base_summary,
     kept_candidates |-> <<>>, new_pick_ids |-> {}]

\* lines 216-235: the cap throttle and the summary's inserted count at the
\* commit
commit_generation(g) ==
    LET final_keep_ids == select_final_keep_ids(g.kept_candidates,
                                                settings.run_max_picks_total)
    IN  [picks |-> g.picks,
         pick_scores |-> throttle(g.pick_scores, g.kept_candidates, final_keep_ids),
         summary |-> [g.summary EXCEPT
                        !.inserted = Cardinality(final_keep_ids \cap g.new_pick_ids)]]

\* lines 62-63: the consensus result of every market view, in key order
consensus_results(st, rows, keys) ==
    list([i \in 1..Len(keys) |-> compute_consensus_for_view(st, rows, keys[i])])

\* lines 64-235 on the results of the views
generate_from_results(pk, sc, rows, results, sport_key, now_utc) ==
    IF results = <<>>
    THEN [picks |-> pk, pick_scores |-> sc,
          summary |-> [base_summary EXCEPT !.total_views = 0]]
    ELSE commit_generation(
             generate_results([Generation(pk, sc) EXCEPT
                                 !.summary.total_views = Len(results)],
                              rows, results, sport_key, now_utc))

\* lines 61-63 on the latest rows
generate_from_rows(st, pk, sc, rows, sport_key, now_utc) ==
    generate_from_results(pk, sc, rows, consensus_results(st, rows, view_keys(rows)),
                          sport_key, now_utc)

\* generate_consensus_picks lines 59-235: the Pick and PickScore tables and
\* the summary at the commit
generate_consensus_picks(st, pk, sc, sport_key, market_key, now_utc) ==
    generate_from_rows(st, pk, sc, get_latest_group_rows(st, sport_key, market_key),
                       sport_key, now_utc)

(***************************************************************************)
(* Market unlock (services/market_unlock.py) and POST /picks/generate.      *)
(***************************************************************************)
get_clv_computed_count(pk) ==
    Cardinality({i \in 1..Len(pk) : pk[i].clv_computed_at # None})

\* a threshold compared with <=: the markets stay locked at the threshold
unlocked_above_threshold(clv_count, markets_unlock_clv_min) ==
    ~(clv_count <= markets_unlock_clv_min)

\* allowed_markets line 17: locked while the count is below the threshold
unlocked(clv_count, markets_unlock_clv_min) == ~(clv_count < markets_unlock_clv_min)

allowed_markets(pk) ==
    IF unlocked(get_clv_computed_count(pk), settings.markets_unlock_clv_min)
    THEN <<"h2h", "spreads", "totals">>
    ELSE <<"h2h">>

\* enforce_market_allowed: whether the market is allowed, and the reason if not
enforce_market_allowed(pk, requested_market) ==
    IF requested_market \in Range(allowed_markets(pk))
    THEN [allowed |-> TRUE, reason |-> None]
    ELSE [allowed |-> FALSE,
          reason |-> Some([code |-> "market_locked_until_clv_100",
                           requested_market |-> requested_market,
                           clv_computed_count |-> get_clv_computed_count(pk),
                           threshold |-> settings.markets_unlock_clv_min,
                           allowed_markets |-> allowed_markets(pk)])]

\* a gate that never refuses: a locked market is generated in mode gate too
refused_never(allowed, mode) == FALSE

\* api/picks.py line 23
refused(allowed, mode) == ~allowed /\ mode = "gate"

\* POST /picks/generate (api/picks.py lines 15-43): a 400 before any
\* generation, or the generator's summary, with a warning for a locked
\* market in mode warn
generate_picks(sport_key, market_key) ==
    \E gate \in {enforce_market_allowed(picks, market_key)},
       done \in {generate_consensus_picks(Session, picks, pick_scores,
                                         sport_key, market_key, now + 1)} :
        /\ now' = now + 1
        /\ IF refused(gate.allowed, settings.markets_unlock_mode)
           THEN /\ response' = [op |-> "generate_picks", sport_key |-> sport_key,
                                market_key |-> market_key, status |-> 400,
                                detail |-> gate.reason, warning |-> None,
                                summary |-> None]
                /\ UNCHANGED picks_vars
           ELSE /\ picks' = done.picks
                /\ pick_scores' = done.pick_scores
                /\ response' = [op |-> "generate_picks", sport_key |-> sport_key,
                                market_key |-> market_key, status |-> 200,
                                detail |-> None,
                                warning |-> IF ~gate.allowed
                                               /\ settings.markets_unlock_mode = "warn"
                                            THEN gate.reason ELSE None,
                                summary |-> Some(done.summary)]
        /\ UNCHANGED <<settings, eval_vars, odds_vars, sched_vars>>

(***************************************************************************)
(* Closing line value (services/clv.py).                                   *)
(***************************************************************************)
SoccerSports == {"soccer_epl"}

\* _required_sides (clv.py lines 23-28)
clv_required_sides(sport_key, market_key) ==
    IF market_key = "h2h" /\ sport_key \in SoccerSports THEN {"AWAY", "DRAW", "HOME"}
    ELSE IF market_key \in {"h2h", "spreads"} THEN {"AWAY", "HOME"}
    ELSE {"OVER", "UNDER"}

\* the pick's snapshots whenever captured, also after the game commenced
closing_candidates_any_time(st, pick) ==
    {r \in st.odds_snapshots :
        /\ r.game_id = pick.game_id
        /\ r.market_key = pick.market_key
        /\ r.point = pick.point
        /\ r.side \in clv_required_sides(st.games[pick.game_id].sport_key, pick.market_key)}

\* lines 44-59: the pick's snapshots captured before the game commenced
closing_candidates(st, pick) ==
    {r \in st.odds_snapshots :
        /\ r.game_id = pick.game_id
        /\ r.market_key = pick.market_key
        /\ r.point = pick.point
        /\ r.captured_at < st.games[pick.game_id].commence_time
        /\ r.side \in clv_required_sides(st.games[pick.game_id].sport_key, pick.market_key)}

\* lines 61-69: the timestamps at which a bookmaker quoted every required side
closing_complete_timestamps(st, pick, bookmaker) ==
    LET cands == {r \in closing_candidates(st, pick) : r.bookmaker = bookmaker}
        sides == clv_required_sides(st.games[pick.game_id].sport_key, pick.market_key)
    IN  {t \in {r.captured_at : r \in cands} :
            {r.side : r \in {x \in cands : x.captured_at = t}} = sides}

\* lines 71-96: each bookmaker's rows at its latest complete timestamp
closing_rows(st, pick) ==
    {r \in closing_candidates(st, pick) :
        /\ closing_complete_timestamps(st, pick, r.bookmaker) # {}
        /\ r.captured_at = SetMax(closing_complete_timestamps(st, pick, r.bookmaker))}

\* a closing view of however few bookmakers
get_closing_market_view_any_books(st, pick) ==
    LET rows == closing_rows(st, pick)
        key == <<pick.game_id, pick.market_key, pick.point>>
        included_books == sorted_set({r.bookmaker : r \in rows}, str_less)
        sides == sorted_set(clv_required_sides(st.games[pick.game_id].sport_key,
                                               pick.market_key), str_less)
    IN  IF pick.game_id \notin DOMAIN st.games THEN None
        ELSE IF rows = {} THEN None
        ELSE Some([sides |-> sides,
                   consensus_probs |-> consensus_fair_prob(rows, key, included_books, sides),
                   rows |-> rows,
                   captured_at_used |-> SetMax({r.captured_at : r \in rows})])

\* get_closing_market_view: None without rows or below consensus_min_books
get_closing_market_view(st, pick) ==
    LET rows == closing_rows(st, pick)
        key == <<pick.game_id, pick.market_key, pick.point>>
        included_books == sorted_set({r.bookmaker : r \in rows}, str_less)
        sides == sorted_set(clv_required_sides(st.games[pick.game_id].sport_key,
                                               pick.market_key), str_less)
    IN  IF pick.game_id \notin DOMAIN st.games THEN None
        ELSE IF rows = {} THEN None
        ELSE IF Len(included_books) < settings.consensus_min_books THEN None
        ELSE Some([sides |-> sides,
                   consensus_probs |-> consensus_fair_prob(rows, key, included_books, sides),
                   rows |-> rows,
                   captured_at_used |-> SetMax({r.captured_at : r \in rows})])

\* core/math.py market_clv and book_clv
market_clv(closing_consensus_prob, pick_time_consensus_prob) ==
    closing_consensus_prob - pick_time_consensus_prob

book_clv(closing_book_implied_prob, pick_time_book_implied_prob) ==
    closing_book_implied_prob - pick_time_book_implied_prob

\* 1.0 / decimal as a probability
implied_of_decimal(decimal) == (ProbScale * DecScale) \div decimal

\* the closing decimal taken from any bookmaker that quotes the side
write_closing_any_book(pick, view, now_utc) ==
    LET closing_view == view[1]
        side_index == CHOOSE k \in 1..Len(closing_view.sides) :
                         closing_view.sides[k] = pick.side
        closing_consensus_prob == closing_view.consensus_probs[side_index]
        book_rows == {r \in closing_view.rows : r.side = pick.side}
        closing_book_decimal == (CHOOSE r \in book_rows : TRUE).decimal
    IN  IF view = None THEN [updated |-> FALSE, pick |-> pick]
        ELSE IF pick.side \notin Range(closing_view.sides)
        THEN [updated |-> FALSE, pick |-> pick]
        ELSE [updated |-> TRUE,
              pick |-> [pick EXCEPT
                  !.closing_consensus_prob = Some(closing_consensus_prob),
                  !.market_clv = Some(market_clv(closing_consensus_prob,
                                                 pick.consensus_prob)),
                  !.closing_book_decimal =
                      IF book_rows = {} THEN None ELSE Some(closing_book_decimal),
                  !.closing_book_implied_prob =
                      IF book_rows = {} THEN None
                      ELSE Some(implied_of_decimal(closing_book_decimal)),
                  !.book_clv =
                      IF book_rows = {} THEN None
                      ELSE Some(book_clv(implied_of_decimal(closing_book_decimal),
                                         implied_of_decimal(pick.best_decimal))),
                  !.clv_computed_at = Some(now_utc)]]

\* compute_pick_clv lines 157-192 on the closing view: the pick with its
\* closing fields written, or the pick as it was when there is no closing view
write_closing(pick, view, now_utc) ==
    LET closing_view == view[1]
        side_index == CHOOSE k \in 1..Len(closing_view.sides) :
                         closing_view.sides[k] = pick.side
        closing_consensus_prob == closing_view.consensus_probs[side_index]
        book_rows == {r \in closing_view.rows :
                         r.bookmaker = pick.best_book /\ r.side = pick.side}
        closing_book_decimal == (CHOOSE r \in book_rows : TRUE).decimal
    IN  IF view = None THEN [updated |-> FALSE, pick |-> pick]
        ELSE IF pick.side \notin Range(closing_view.sides)
        THEN [updated |-> FALSE, pick |-> pick]
        ELSE [updated |-> TRUE,
              pick |-> [pick EXCEPT
                  !.closing_consensus_prob = Some(closing_consensus_prob),
                  !.market_clv = Some(market_clv(closing_consensus_prob,
                                                 pick.consensus_prob)),
                  !.closing_book_decimal =
                      IF book_rows = {} THEN None ELSE Some(closing_book_decimal),
                  !.closing_book_implied_prob =
                      IF book_rows = {} THEN None
                      ELSE Some(implied_of_decimal(closing_book_decimal)),
                  !.book_clv =
                      IF book_rows = {} THEN None
                      ELSE Some(book_clv(implied_of_decimal(closing_book_decimal),
                                         implied_of_decimal(pick.best_decimal))),
                  !.clv_computed_at = Some(now_utc)]]

\* a computation that leaves clv_computed_at as it was when the pick's book
\* does not quote the close
compute_pick_clv_unstamped(st, pick, now_utc) ==
    LET done == write_closing(pick, get_closing_market_view(st, pick), now_utc)
    IN  IF done.updated /\ done.pick.book_clv = None
        THEN [done EXCEPT !.pick.clv_computed_at = pick.clv_computed_at]
        ELSE done

\* compute_pick_clv line 156: the closing view of the pick, then the fields
compute_pick_clv(st, pick, now_utc) ==
    write_closing(pick, get_closing_market_view(st, pick), now_utc)

\* a skip test that is never true: every selected pick is recomputed
skip_already_computed_never(pick, force) == FALSE

\* compute_clv_for_date line 214
skip_already_computed(pick, force) == pick.clv_computed_at # None /\ ~force

clv_summary(processed, updated, skipped_no_close, skipped_already_computed_count) ==
    [processed |-> processed, updated |-> updated,
     skipped_no_close |-> skipped_no_close,
     skipped_already_computed |-> skipped_already_computed_count]

\* a commit that deletes the picks found without closing market
selected_outcome_deleting(pk, selected, skipped, computed) ==
    LET updated == {i \in DOMAIN computed : computed[i].updated}
        no_close == (selected \ skipped) \ updated
        left == sorted_set((1..Len(pk)) \ no_close, LAMBDA a, b : a < b)
    IN  [picks |-> list([k \in 1..Len(left) |->
                            IF left[k] \in updated THEN computed[left[k]].pick
                            ELSE pk[left[k]]]),
         summary |-> clv_summary(Cardinality(selected), Cardinality(updated),
                                 Cardinality(no_close), Cardinality(skipped))]

\* the summary of compute_clv_for_date (lines 206-222) and the picks at the
\* commit; computed maps each pick that was not skipped to compute_pick_clv's
\* outcome
selected_outcome(pk, selected, skipped, computed) ==
    LET updated == {i \in DOMAIN computed : computed[i].updated}
    IN  [picks |-> list([i \in 1..Len(pk) |-> IF i \in updated THEN computed[i].pick
                                              ELSE pk[i]]),
         summary |-> clv_summary(Cardinality(selected), Cardinality(updated),
                                 Cardinality((selected \ skipped) \ updated),
                                 Cardinality(skipped))]

\* lines 213-222 with the skipped picks known
compute_unskipped(st, pk, selected, skipped, now_utc) ==
    selected_outcome(pk, selected, skipped,
                     [i \in selected \ skipped |-> compute_pick_clv(st, pk[i], now_utc)])

\* the loop of compute_clv_for_date (lines 213-222) and of run_clv (lines
\* 147-155) over the selected pick ids
compute_selected(st, pk, selected, force, now_utc) ==
    compute_unskipped(st, pk, selected,
                      {i \in selected : skip_already_computed(pk[i], force)}, now_utc)

\* timedelta(days=1) in minutes, the unit of the clock
DayMinutes == 1440

\* compute_clv_for_date lines 196-204: the picks of the games that commence
\* on the date
compute_clv_for_date(st, pk, date_utc, force, now_utc) ==
    LET day_start == date_utc * DayMinutes
        day_end == day_start + DayMinutes
        selected == {i \in 1..Len(pk) :
                        /\ st.games[pk[i].game_id].commence_time >= day_start
                        /\ st.games[pk[i].game_id].commence_time < day_end}
    IN  compute_selected(st, pk, selected, force, now_utc)

\* POST /clv/compute (api/clv.py lines 14-20)
clv_compute(date_utc, force) ==
    \E done \in {compute_clv_for_date(Session, picks, date_utc, force, now + 1)} :
        /\ now' = now + 1
        /\ picks' = done.picks
        /\ response' = [op |-> "clv_compute", date_utc |-> date_utc, force |-> force,
                        summary |-> done.summary]
        /\ UNCHANGED <<settings, eval_vars, odds_vars, pick_scores, sched_vars>>

(***************************************************************************)
(* Pipeline runs on the database (services/pipeline.py).                   *)
(***************************************************************************)
\* resolve_sports: SPORTS_AUTORUN when given, else the whitelist; sorted
resolve_sports ==
    sorted_set(IF settings.sports_autorun # <<>> THEN Range(settings.sports_autorun)
               ELSE settings.odds_sports_whitelist, str_less)

\* resolve_markets: MARKETS_AUTORUN without duplicates, sorted; h2h when empty
resolve_markets ==
    sorted_set(IF settings.markets_autorun # <<>> THEN Range(settings.markets_autorun)
               ELSE {"h2h"}, str_less)

\* the (sport, market) pairs in the order of the loops of lines 95-96
sport_market_pairs ==
    concat_all(list([i \in 1..Len(resolve_sports) |->
        list([k \in 1..Len(resolve_markets) |-> <<resolve_sports[i], resolve_markets[k]>>])]))

\* lines 97-101: the tables the generator committed for the pair and its
\* summary in per_sport_market
run_after_pair(run, pair, done) ==
    [picks |-> done.picks, pick_scores |-> done.pick_scores,
     per_pair |-> (pair :> done.summary) @@ run.per_pair]

\* lines 95-101: the generator runs for each pair on the tables the previous
\* pair committed
RECURSIVE run_picks_pairs(_, _, _)
run_picks_pairs(run, pairs, now_utc) ==
    IF pairs = <<>> THEN run
    ELSE run_picks_pairs(
             run_after_pair(run, Head(pairs),
                            generate_consensus_picks(Session, run.picks, run.pick_scores,
                                                     Head(pairs)[1], Head(pairs)[2],
                                                     now_utc)),
             Tail(pairs), now_utc)

SumOver(f, field) == SumSeq(list([i \in 1..Len(f) |-> f[i][field]]))

\* lines 102-121: the totals over the pairs and the summary
run_picks_summary(run, pairs) ==
    LET items == list([i \in 1..Len(pairs) |-> run.per_pair[pairs[i]]])
    IN  [picks |-> run.picks, pick_scores |-> run.pick_scores,
         summary |-> [total_views |-> SumOver(items, "total_views"),
                      candidates |-> SumOver(items, "candidates"),
                      inserted |-> SumOver(items, "inserted"),
                      skipped_existing |-> SumOver(items, "skipped_existing"),
                      skipped_low_ev |-> SumOver(items, "skipped_low_ev"),
                      skipped_insufficient_books |->
                          SumOver(items, "skipped_insufficient_books"),
                      sports |-> resolve_sports,
                      markets |-> resolve_markets,
                      per_sport_market |-> run.per_pair,
                      errors |-> <<>>,
                      errors_count |-> 0]]

\* run_picks lines 89-121: the tables after the loop and the summary
run_picks_result(now_utc) ==
    run_picks_summary(run_picks_pairs([picks |-> picks, pick_scores |-> pick_scores,
                                       per_pair |-> <<>>], sport_market_pairs, now_utc),
                      sport_market_pairs)

\* run_and_log(run_type = "picks"): run_picks, then one PipelineRun row
run_picks ==
    \E done \in {run_picks_result(now + 1)} :
        /\ now' = now + 1
        /\ picks' = done.picks
        /\ pick_scores' = done.pick_scores
        /\ pipeline_runs' = log_run(pipeline_runs, "picks", "ok")
        /\ response' = [op |-> "run_picks", summary |-> done.summary]
        /\ UNCHANGED <<settings, eval_vars, odds_vars, run_lock, job_pc, http_pc, skip_log, calls>>

\* a run over every pick without closing line value, commenced or not
run_clv_result_any_game(force, now_utc) ==
    LET selected == {i \in 1..Len(picks) : force \/ picks[i].clv_computed_at = None}
    IN  compute_selected(Session, picks, selected, force, now_utc)

\* run_clv lines 124-158: the picks of the games that have commenced, without
\* force only those with no closing line value yet
run_clv_result(force, now_utc) ==
    LET selected == {i \in 1..Len(picks) :
                        /\ games[picks[i].game_id].commence_time <= now_utc
                        /\ force \/ picks[i].clv_computed_at = None}
    IN  compute_selected(Session, picks, selected, force, now_utc)

\* run_and_log(run_type = "clv", force)
run_clv(force) ==
    \E done \in {run_clv_result(force, now + 1)} :
        /\ now' = now + 1
        /\ picks' = done.picks
        /\ pipeline_runs' = log_run(pipeline_runs, "clv", "ok")
        /\ response' = [op |-> "run_clv", force |-> force,
                        summary |-> done.summary]
        /\ UNCHANGED <<settings, eval_vars, odds_vars, pick_scores, run_lock, job_pc, http_pc,
                       skip_log, calls>>

(***************************************************************************)
(* The picks specification: three bookmakers quote one game; picks are     *)
(* generated by request and by the pipeline, closing line values are       *)
(* computed by request.  The environment enables every market in the      *)
(* pipeline and sets consensus and time thresholds that three books meet.  *)
(***************************************************************************)
MaxRequests == 4

H2hConsensus == Market("h2h", <<Outcome("Heat", 100, None), Outcome("Celtics", -120, None)>>)

H2hOutlier == Market("h2h", <<Outcome("Heat", 125, None), Outcome("Celtics", -145, None)>>)

TotalsConsensus ==
    Market("totals", <<Outcome("Over", -110, Some(2105)), Outcome("Under", -110, Some(2105))>>)

TotalsOutlier ==
    Market("totals", <<Outcome("Over", 115, Some(2105)), Outcome("Under", -135, Some(2105))>>)

ThreeBooks(fanduel_markets) ==
    <<Book("draftkings", <<H2hConsensus, TotalsConsensus>>),
      Book("fanduel", fanduel_markets),
      Book("pinnacle", <<H2hConsensus, TotalsConsensus>>)>>

\* a second game of the sport, commencing later the same day
LaterEvent(bookmakers) == Event("e2", "basketball_nba", IsoTime(6, 0), bookmakers)

\* fanduel off the consensus in both markets, or close to it; or two games
\* with fanduel off the consensus
PicksPayloads ==
    {<<FirstEvent(ThreeBooks(<<H2hOutlier, TotalsOutlier>>))>>,
     <<FirstEvent(ThreeBooks(<<H2hB, TotalsConsensus>>))>>,
     <<FirstEvent(ThreeBooks(<<H2hOutlier, TotalsOutlier>>)),
       LaterEvent(ThreeBooks(<<H2hOutlier, TotalsOutlier>>))>>}

\* the values of the MarketKey enum
RequestedMarkets == {"h2h", "spreads", "totals"}

PicksSettings ==
    [DefaultSettings EXCEPT !.consensus_min_books = 3, !.pick_min_books = 3,
                            !.min_minutes_to_start = 1,
                            !.time_decay_half_life_min = 2,
                            !.markets_autorun = <<"h2h", "spreads", "totals">>,
                            !.markets_unlock_clv_min = 1]

UnlockModes == {"gate", "warn"}

\* MIN_BOOKS at its default, which three books do not meet (every candidate is
\* dropped at the first gate of score_pick), or lowered to three
MinBooksChoices == {DefaultSettings.min_books, 3}

\* RUN_MAX_PICKS_TOTAL at its default or lowered to one pick per run
RunCapChoices == {DefaultSettings.run_max_picks_total, 1}

PicksInit ==
    /\ SchedInit
    /\ OddsInit
    /\ settings \in {[PicksSettings EXCEPT !.markets_unlock_mode = mode,
                                            !.min_books = min_books,
                                            !.run_max_picks_total = run_max_picks_total] :
                        mode \in UnlockModes, min_books \in MinBooksChoices,
                        run_max_picks_total \in RunCapChoices}

PicksNext ==
    /\ now < MaxRequests
    /\ \/ \E events \in PicksPayloads : ingest_once("basketball_nba", events)
       \/ \E market_key \in RequestedMarkets : generate_picks("basketball_nba", market_key)
       \/ clv_compute(0, FALSE)
       \/ run_picks

PicksSpec == PicksInit /\ [][PicksNext]_vars

(***************************************************************************)
(* Claims about pick generation and the market gate.                       *)
(***************************************************************************)
\* this step is a pick generation that ran, requested right after a pick
\* generation that ran for the same sport and market: no snapshot was
\* written in between
SameGenerationTwice ==
    /\ response.op = "generate_picks"
    /\ response.status = 200
    /\ response'.op = "generate_picks"
    /\ response'.status = 200
    /\ response'.sport_key = response.sport_key
    /\ response'.market_key = response.market_key

\* C6: a second generate_consensus_picks for the same sport and market with
\* no snapshot written in between leaves the Pick table unchanged, reports
\* inserted = 0, and counts in skipped_existing every candidate the first
\* run scored (each of them has a Pick on the uniqueness key)
C6_SecondGenerationInsertsNothing ==
    [][SameGenerationTwice =>
          /\ picks' = picks
          /\ response'.summary[1].inserted = 0
          /\ response'.summary[1].skipped_existing = response.summary[1].scored
          /\ response'.summary[1].scored = response.summary[1].scored]_vars

\* with MIN_BOOKS at its default: a generation that found its candidate's
\* pick already stored and inserted nothing
C6_Witness ==
    /\ settings.min_books = DefaultSettings.min_books
    /\ response.op = "generate_picks"
    /\ response.status = 200
    /\ response.summary[1].skipped_existing >= 1
    /\ response.summary[1].inserted = 0
    /\ Len(picks) = response.summary[1].skipped_existing

\* the number of picks whose closing line value has been computed
ClvComputedPicks == Cardinality({i \in DOMAIN picks : picks[i].clv_computed_at # None})

\* a market other than h2h is locked while fewer than markets_unlock_clv_min
\* picks have a closing line value
MarketLocked(market_key) ==
    market_key # "h2h" /\ ClvComputedPicks < settings.markets_unlock_clv_min

\* C9 as claimed: run_picks generates exactly the configured autorun markets
\* that are allowed, so a pipeline run never generates a locked market
C9_PipelineGeneratesOnlyAllowedMarkets ==
    response.op = "run_picks" =>
        \A pair \in DOMAIN response.summary.per_sport_market : ~MarketLocked(pair[2])

\* C10: a generation request for a locked market is refused with a 400
\* carrying the lock's reason and changes no Pick or PickScore in mode gate;
\* in mode warn it generates and the response carries the warning; a request
\* for an allowed market generates without a warning in either mode
C10_LockedMarketGateOrWarn ==
    [][response'.op = "generate_picks" =>
          LET locked == MarketLocked(response'.market_key)
              mode == settings.markets_unlock_mode
              generated == generate_consensus_picks(Session, picks, pick_scores,
                               response'.sport_key, response'.market_key, now')
          IN  /\ (locked /\ mode = "gate") =>
                    /\ response'.status = 400
                    /\ response'.detail # None
                    /\ response'.detail[1].requested_market = response'.market_key
                    /\ response'.summary = None
                    /\ UNCHANGED picks_vars
              /\ (locked /\ mode = "warn") =>
                    /\ response'.status = 200
                    /\ response'.warning # None
                    /\ response'.summary = Some(generated.summary)
                    /\ picks' = generated.picks
                    /\ pick_scores' = generated.pick_scores
              /\ ~locked =>
                    /\ response'.status = 200
                    /\ response'.warning = None
                    /\ response'.summary = Some(generated.summary)
                    /\ picks' = generated.picks]_vars

\* mode warn with MIN_BOOKS at its default: this request stored a pick on
\* the locked totals market and its response carries the warning
C10_Witness ==
    /\ settings.markets_unlock_mode = "warn"
    /\ settings.min_books = DefaultSettings.min_books
    /\ response.op = "generate_picks"
    /\ response.market_key = "totals"
    /\ response.warning # None
    /\ response.summary[1].scored >= 1
    /\ \E i \in DOMAIN picks : picks[i].market_key = "totals" /\ picks[i].created_at = now

(***************************************************************************)
(* The closing-line specification: a game today and a game tomorrow are    *)
(* quoted by three bookmakers; picks are generated on h2h and their        *)
(* closing line values computed by date and by the pipeline, with and      *)
(* without force.                                                          *)
(***************************************************************************)
MaxClvRequests == 4

H2hBooks(fanduel_market) ==
    <<Book("draftkings", <<H2hConsensus>>), Book("fanduel", <<fanduel_market>>),
      Book("pinnacle", <<H2hConsensus>>)>>

GameToday(bookmakers) == Event("e1", "basketball_nba", IsoTime(4, 0), bookmakers)

GameTomorrow(bookmakers) ==
    Event("e2", "basketball_nba", IsoTime(DayMinutes + 4, 0), bookmakers)

\* today's game as the provider lists it with an earlier start
GameStarting(bookmakers) == Event("e1", "basketball_nba", IsoTime(2, 0), bookmakers)

TwoBooks ==
    <<Book("draftkings", <<H2hConsensus>>), Book("pinnacle", <<H2hConsensus>>)>>

\* a market with one outcome only: the other side is not quoted
H2hAwayOnly == Market("h2h", <<Outcome("Heat", 130, None)>>)

\* both games with fanduel off the consensus; today's game with fanduel's
\* line moved, or with fanduel quoting one side only; the game with the
\* earlier start quoted by two books, by three, and with fanduel's line moved
ClvPayloads ==
    {<<GameToday(H2hBooks(H2hOutlier)), GameTomorrow(H2hBooks(H2hOutlier))>>,
     <<GameToday(H2hBooks(H2hB))>>,
     <<GameToday(H2hBooks(H2hAwayOnly))>>,
     <<GameStarting(TwoBooks)>>,
     <<GameStarting(H2hBooks(H2hOutlier))>>,
     <<GameStarting(H2hBooks(H2hB))>>}

ClvDates == {0, 1}

UnlockThresholds == {1, 2}

\* CONSENSUS_MIN_BOOKS at three books or at two
ClosingMinBooks == {3, 2}

ClvInit ==
    /\ SchedInit
    /\ OddsInit
    /\ settings \in {[PicksSettings EXCEPT !.markets_unlock_clv_min = threshold,
                                            !.consensus_min_books = consensus_min_books] :
                        threshold \in UnlockThresholds,
                        consensus_min_books \in ClosingMinBooks}

ClvNext ==
    /\ now < MaxClvRequests
    /\ \/ \E events \in ClvPayloads : ingest_once("basketball_nba", events)
       \/ generate_picks("basketball_nba", "h2h")
       \/ \E date_utc \in ClvDates : \E force \in BOOLEAN : clv_compute(date_utc, force)
       \/ \E force \in BOOLEAN : run_clv(force)

ClvSpec == ClvInit /\ [][ClvNext]_vars

(***************************************************************************)
(* Claims about closing line values and the market unlock.                 *)
(***************************************************************************)
ClvFields(pick) ==
    <<pick.clv_computed_at, pick.closing_consensus_prob, pick.market_clv,
      pick.closing_book_decimal, pick.closing_book_implied_prob, pick.book_clv>>

\* the picks of the games that commence on the date
PicksOfDate(date_utc) ==
    {i \in DOMAIN picks : games[picks[i].game_id].commence_time \div DayMinutes = date_utc}

\* C7: compute_clv_for_date without force counts every pick of the date that
\* already has clv_computed_at in skipped_already_computed and leaves the
\* CLV fields of every computed pick unchanged; the CLV fields of a computed
\* pick change only in a call with force
C7_ComputedPicksSkippedWithoutForce ==
    [][/\ \A i \in DOMAIN picks :
             (picks[i].clv_computed_at # None /\ ClvFields(picks'[i]) # ClvFields(picks[i]))
                 => (response'.op \in {"clv_compute", "run_clv"} /\ response'.force)
       /\ (response'.op = "clv_compute" /\ ~response'.force) =>
             response'.summary.skipped_already_computed =
                 Cardinality({i \in PicksOfDate(response'.date_utc) :
                                 picks[i].clv_computed_at # None})]_vars

\* a call without force that skipped a computed pick
C7_Witness ==
    /\ response.op = "clv_compute"
    /\ ~response.force
    /\ response.summary.skipped_already_computed >= 1
    /\ response.summary.updated = 0

AllMarkets == <<"h2h", "spreads", "totals">>

AllowedByCount ==
    IF ClvComputedPicks < settings.markets_unlock_clv_min THEN <<"h2h">> ELSE AllMarkets

\* C8: allowed_markets is [h2h] iff fewer than markets_unlock_clv_min picks
\* have clv_computed_at, else [h2h, spreads, totals]; it changes from the
\* first to the second exactly in the step that raises the count from below
\* the threshold to the threshold or above
C8_UnlockExactlyAtThreshold ==
    [][/\ allowed_markets(picks) = AllowedByCount
       /\ allowed_markets(picks') = AllowedByCount'
       /\ (allowed_markets(picks) = <<"h2h">> /\ allowed_markets(picks') = AllMarkets)
              <=> (/\ ClvComputedPicks < settings.markets_unlock_clv_min
                   /\ ClvComputedPicks' >= settings.markets_unlock_clv_min)]_vars

\* threshold 2: a call that computed one more pick raised the count from 1
\* to 2 and the markets are unlocked
C8_Witness ==
    /\ settings.markets_unlock_clv_min = 2
    /\ response.op = "clv_compute"
    /\ ~response.force
    /\ response.summary.updated = 1
    /\ ClvComputedPicks = 2
    /\ allowed_markets(picks) = AllMarkets

(***************************************************************************)
(* The cap specification: _select_final_keep_ids applied to a list of kept *)
(* candidates of one run.  Pick ids are primary keys, so the candidates'   *)
(* pick ids are distinct; adaptive_max_picks is a function of the sport.   *)
(***************************************************************************)
MaxKept == 3

KeptPqs == {50, 70}

KeptSports == {"basketball_nba", "icehockey_nhl"}

\* RUN_MAX_PICKS_TOTAL in the environment
RunMaxChoices == {1, 2}

\* the candidate tuple of picks.py lines 201-212
KeptCandidate(pick_id, pqs, sport_key, nba_max_picks) ==
    [pqs |-> pqs, sport_key |-> sport_key, market_key |-> "h2h",
     event_id |-> IF pick_id = 1 THEN "e2" ELSE "e1", side |-> "HOME",
     created_at |-> 1, pick_id |-> pick_id,
     adaptive_max_picks |-> IF sport_key = "basketball_nba" THEN nba_max_picks ELSE 1]

\* the lists of up to MaxKept candidates with distinct pick ids, in any order
KeptLists ==
    UNION {{list([k \in 1..n |-> KeptCandidate(ids[k], pqs[k], sport[k], nba_max_picks)]) :
               ids \in {f \in [1..n -> 1..MaxKept] :
                           \A a, b \in 1..n : a # b => f[a] # f[b]},
               pqs \in [1..n -> KeptPqs], sport \in [1..n -> KeptSports],
               nba_max_picks \in {0, 2}} : n \in 0..MaxKept}

KeepInit ==
    /\ SchedInit
    /\ \E run_max_picks_total \in RunMaxChoices :
           settings = [DefaultSettings EXCEPT !.run_max_picks_total = run_max_picks_total]
    /\ now = 0 /\ games = <<>> /\ odds_groups = <<>> /\ odds_snapshots = {}
    /\ picks = <<>> /\ pick_scores = <<>> /\ clv_sport_stats = {} /\ calibration_runs = <<>>
    /\ \E kept_candidates \in KeptLists :
           response = [op |-> "kept_candidates", kept_candidates |-> kept_candidates,
                       final_keep_ids |-> {}]

\* picks.py line 216 on the candidates the run kept
enforce_caps ==
    /\ response.op = "kept_candidates"
    /\ response' = [op |-> "select_final_keep_ids",
                    kept_candidates |-> response.kept_candidates,
                    final_keep_ids |->
                        select_final_keep_ids(response.kept_candidates,
                                              settings.run_max_picks_total)]
    /\ UNCHANGED <<settings, eval_vars, now, odds_vars, picks_vars, sched_vars>>

KeepNext == enforce_caps

KeepSpec == KeepInit /\ [][KeepNext]_vars

\* the candidates in the order (descending pqs, sport_key, market_key,
\* event_id, created_at, pick_id), which is total for distinct pick ids
OrderedCandidates(S) ==
    LET before(a, b) ==
            \/ a.pqs > b.pqs
            \/ a.pqs = b.pqs /\ str_rank(a.sport_key) < str_rank(b.sport_key)
            \/ a.pqs = b.pqs /\ a.sport_key = b.sport_key
               /\ str_rank(a.market_key) < str_rank(b.market_key)
            \/ a.pqs = b.pqs /\ a.sport_key = b.sport_key /\ a.market_key = b.market_key
               /\ str_rank(a.event_id) < str_rank(b.event_id)
            \/ a.pqs = b.pqs /\ a.sport_key = b.sport_key /\ a.market_key = b.market_key
               /\ a.event_id = b.event_id /\ a.created_at < b.created_at
            \/ a.pqs = b.pqs /\ a.sport_key = b.sport_key /\ a.market_key = b.market_key
               /\ a.event_id = b.event_id /\ a.created_at = b.created_at
               /\ a.pick_id < b.pick_id
    IN  sorted_set(S, before)

\* the walk of the claim: an entry is kept iff its sport has fewer than
\* max(1, adaptive_max_picks) kept entries and fewer than run_max_picks_total
\* entries are kept overall
RECURSIVE WalkKept(_, _, _)
WalkKept(ordered, kept, run_max_picks_total) ==
    IF ordered = <<>> THEN {c.pick_id : c \in kept}
    ELSE LET c == Head(ordered)
             same_sport == {x \in kept : x.sport_key = c.sport_key}
             keep == /\ Cardinality(same_sport) < Max2(1, c.adaptive_max_picks)
                     /\ Cardinality(kept) < run_max_picks_total
         IN  WalkKept(Tail(ordered), IF keep THEN kept \cup {c} ELSE kept,
                      run_max_picks_total)

\* the rearrangements of a sequence
Rearranged(seq) ==
    {list([k \in 1..Len(seq) |-> seq[p[k]]]) :
        p \in {f \in [1..Len(seq) -> 1..Len(seq)] :
                  \A a, b \in 1..Len(seq) : a # b => f[a] # f[b]}}

\* C11: the final KEEP set is the one the walk over the ordered candidates
\* keeps, and it is the same for every permutation of the candidate list
C11_FinalKeepIsOrderedWalk ==
    response.op = "select_final_keep_ids" =>
        /\ response.final_keep_ids =
               WalkKept(OrderedCandidates(Range(response.kept_candidates)), {},
                        settings.run_max_picks_total)
        /\ \A other \in Rearranged(response.kept_candidates) :
               select_final_keep_ids(other, settings.run_max_picks_total)
                   = response.final_keep_ids

\* three candidates given out of order, one passed over at its sport's cap
\* and a later one of the other sport kept
C11_Witness ==
    /\ response.op = "select_final_keep_ids"
    /\ Len(response.kept_candidates) = 3
    /\ settings.run_max_picks_total = 2
    /\ Cardinality(response.final_keep_ids) = 2
    /\ response.kept_candidates[1].pqs < response.kept_candidates[3].pqs
    /\ \E a, b \in Range(response.kept_candidates) :
          /\ a.pick_id \notin response.final_keep_ids
          /\ b.pick_id \in response.final_keep_ids
          /\ a.pqs > b.pqs

\* the score rows written in the last handler call with decision KEEP
KeptNow ==
    {id \in DOMAIN pick_scores :
        pick_scores[id].scored_at = now /\ pick_scores[id].decision = "KEEP"}

\* the caps of a run for the sport
CapOfSport(sport_key) ==
    Min2(settings.run_max_picks_total, Max2(1, adaptive_thresholds(sport_key).max_picks))

KeptBeforeCaps(sport_key, market_key) ==
    LET rows == get_latest_group_rows(Session, sport_key, market_key)
    IN  {c.pick_id :
            c \in Range(generate_results(Generation(picks, pick_scores), rows,
                                         consensus_results(Session, rows, view_keys(rows)),
                                         sport_key, now + 1).kept_candidates)}

PickSnapshots(pick) ==
    {r \in odds_snapshots : /\ r.game_id = pick.game_id
                            /\ r.market_key = pick.market_key
                            /\ r.point = pick.point}

\* the snapshot was captured strictly before the pick's game commences
BeforeCommence(pick, r) == r.captured_at < games[pick.game_id].commence_time

\* the bookmaker's capture at the time holds every required side
CompleteCapture(pick, bookmaker, captured_at) ==
    \A side \in clv_required_sides(games[pick.game_id].sport_key, pick.market_key) :
        \E r \in PickSnapshots(pick) :
            r.bookmaker = bookmaker /\ r.captured_at = captured_at /\ r.side = side

\* the session without the snapshots captured at or after the commence time
\* of their game and without the captures that miss a required side
SessionOfValidCaptures(pick) ==
    [Session EXCEPT !.odds_snapshots =
        {r \in odds_snapshots :
            r \in PickSnapshots(pick) =>
                /\ BeforeCommence(pick, r)
                /\ CompleteCapture(pick, r.bookmaker, r.captured_at)}]

\* C13: the closing market holds, for each bookmaker, only the rows of its
\* latest capture strictly before commence_time at which every required side
\* is present; snapshots captured at or after commence_time and captures
\* missing a side change neither the closing market nor the values
\* compute_pick_clv writes
C13_ClosingUsesLatestCompleteBeforeCommence ==
    \A i \in DOMAIN picks :
        \A view \in {get_closing_market_view(Session, picks[i])} :
            /\ view # None =>
                  \A r \in view[1].rows :
                      /\ r \in PickSnapshots(picks[i])
                      /\ BeforeCommence(picks[i], r)
                      /\ CompleteCapture(picks[i], r.bookmaker, r.captured_at)
                      /\ \A x \in PickSnapshots(picks[i]) :
                            (/\ x.bookmaker = r.bookmaker
                             /\ BeforeCommence(picks[i], x)
                             /\ CompleteCapture(picks[i], x.bookmaker, x.captured_at))
                                => x.captured_at <= r.captured_at
            /\ view = get_closing_market_view(SessionOfValidCaptures(picks[i]), picks[i])
            /\ picks[i].clv_computed_at = Some(now) =>
                  /\ view # None
                  /\ ClvFields(picks[i]) =
                         ClvFields(write_closing(picks[i], view, now).pick)

\* a pick whose closing values were just computed although a snapshot of its
\* game and market was captured at or after the commence time
C13_Witness ==
    \E i \in DOMAIN picks :
        /\ picks[i].clv_computed_at = Some(now)
        /\ \E r \in PickSnapshots(picks[i]) :
              /\ r.bookmaker = "fanduel"
              /\ ~BeforeCommence(picks[i], r)
              /\ \E x \in get_closing_market_view(Session, picks[i])[1].rows :
                    x.bookmaker = "fanduel" /\ x.side = r.side /\ x.decimal # r.decimal

\* the bookmakers with a complete capture of the pick's market and point
\* before the game commences
ClosingBooks(pick) ==
    {r.bookmaker : r \in {x \in PickSnapshots(pick) :
                             /\ BeforeCommence(pick, x)
                             /\ CompleteCapture(pick, x.bookmaker, x.captured_at)}}

\* the picks a CLV call passes to compute_pick_clv, by the call's response
PassedToCompute(call, call_time) ==
    IF call.op = "clv_compute"
    THEN {i \in PicksOfDate(call.date_utc) : call.force \/ picks[i].clv_computed_at = None}
    ELSE {i \in DOMAIN picks :
             /\ games[picks[i].game_id].commence_time <= call_time
             /\ call.force \/ picks[i].clv_computed_at = None}

\* C14: a pick with fewer than consensus_min_books bookmakers holding a
\* complete pre-commence group is counted under skipped_no_close, and each of
\* its CLV fields, clv_computed_at included, keeps its value; compute_pick_clv
\* returns False and writes nothing also for such a pick that already has CLV
C14_TooFewClosingBooksSkipsPick ==
    [][response'.op \in {"clv_compute", "run_clv"} =>
          \A short \in {{i \in PassedToCompute(response', now') :
                            Cardinality(ClosingBooks(picks[i]))
                                < settings.consensus_min_books}} :
              /\ \A i \in short : picks'[i] = picks[i]
              /\ response'.summary.skipped_no_close = Cardinality(short)
              /\ response'.summary.updated
                     = Cardinality(PassedToCompute(response', now') \ short)
              /\ \A i \in short :
                     \A computed \in {[picks[i] EXCEPT
                                         !.clv_computed_at = Some(now),
                                         !.closing_consensus_prob = Some(ProbScale \div 2),
                                         !.market_clv = Some(0)]} :
                         compute_pick_clv(Session, computed, now')
                             = [updated |-> FALSE, pick |-> computed]]_vars

\* a call that found two closing bookmakers where three are required
C14_Witness ==
    /\ response.op \in {"clv_compute", "run_clv"}
    /\ response.summary.skipped_no_close >= 1
    /\ settings.consensus_min_books = 3
    /\ \E i \in DOMAIN picks :
          /\ Cardinality(ClosingBooks(picks[i])) = 2
          /\ picks[i].clv_computed_at = None

\* the rows of the pick's best_book for the pick's side in its latest
\* complete capture before the game commences
OwnClosingRows(pick) ==
    {r \in PickSnapshots(pick) :
        /\ r.bookmaker = pick.best_book
        /\ r.side = pick.side
        /\ BeforeCommence(pick, r)
        /\ CompleteCapture(pick, r.bookmaker, r.captured_at)
        /\ \A x \in PickSnapshots(pick) :
              (/\ x.bookmaker = r.bookmaker
               /\ BeforeCommence(pick, x)
               /\ CompleteCapture(pick, x.bookmaker, x.captured_at))
                  => x.captured_at <= r.captured_at}

\* C15: a pick whose closing market is computable gets closing_consensus_prob,
\* market_clv and clv_computed_at; closing_book_decimal,
\* closing_book_implied_prob and book_clv are null when the pick's best_book
\* has no closing row for the pick's side, and otherwise come from the
\* best_book's own closing decimal
C15_BookClvFromBestBookOnly ==
    [][response'.op \in {"clv_compute", "run_clv"} =>
          \A i \in PassedToCompute(response', now') :
              Cardinality(ClosingBooks(picks[i])) >= settings.consensus_min_books =>
                  /\ picks'[i].clv_computed_at = Some(now')
                  /\ picks'[i].closing_consensus_prob # None
                  /\ picks'[i].market_clv =
                         Some(picks'[i].closing_consensus_prob[1] - picks[i].consensus_prob)
                  /\ IF OwnClosingRows(picks[i]) = {}
                     THEN /\ picks'[i].closing_book_decimal = None
                          /\ picks'[i].closing_book_implied_prob = None
                          /\ picks'[i].book_clv = None
                     ELSE \E r \in OwnClosingRows(picks[i]) :
                          /\ picks'[i].closing_book_decimal = Some(r.decimal)
                          /\ picks'[i].closing_book_implied_prob =
                                 Some((ProbScale * DecScale) \div r.decimal)
                          /\ picks'[i].book_clv =
                                 Some((ProbScale * DecScale) \div r.decimal
                                      - (ProbScale * DecScale) \div picks[i].best_decimal)]_vars

\* a pick just computed whose best_book fanduel has no closing row while two
\* other bookmakers do
C15_Witness ==
    \E i \in DOMAIN picks :
        /\ picks[i].clv_computed_at = Some(now)
        /\ picks[i].best_book = "fanduel"
        /\ OwnClosingRows(picks[i]) = {}
        /\ ClosingBooks(picks[i]) = {"draftkings", "pinnacle"}
        /\ picks[i].market_clv # None
        /\ picks[i].closing_book_decimal = None

\* the picks due for a pipeline clv run at the time: the game has commenced
\* and the pick has no closing line value
DuePicks(time) ==
    {i \in DOMAIN picks : /\ games[picks[i].game_id].commence_time <= time
                          /\ picks[i].clv_computed_at = None}

\* C16: run_clv without force processes exactly the picks whose game has
\* commenced and whose clv_computed_at is null; every other pick, of a game
\* not yet commenced or with CLV already, is left as it is
C16_RunClvProcessesOnlyDuePicks ==
    [][(response'.op = "run_clv" /\ ~response'.force) =>
          /\ response'.summary.processed = Cardinality(DuePicks(now'))
          /\ response'.summary.skipped_already_computed = 0
          /\ response'.summary.updated + response'.summary.skipped_no_close
                 = Cardinality(DuePicks(now'))
          /\ Len(picks') = Len(picks)
          /\ \A i \in DOMAIN picks \ DuePicks(now') : picks'[i] = picks[i]
          /\ response'.summary.updated
                 = Cardinality({i \in DuePicks(now') : picks'[i] # picks[i]})]_vars

\* a run without force that computed the pick of the game that has commenced
\* and left the pick of tomorrow's game without closing line value
C16_Witness ==
    /\ response.op = "run_clv"
    /\ ~response.force
    /\ response.summary.processed = 1
    /\ response.summary.updated = 1
    /\ \E i \in DOMAIN picks :
          /\ games[picks[i].game_id].commence_time > now
          /\ picks[i].clv_computed_at = None

(***************************************************************************)
(* Claims about the writers of the Pick table.                             *)
(***************************************************************************)
\* the pick without its six CLV fields
NonClvFields(pick) ==
    [pick EXCEPT !.clv_computed_at = None, !.closing_consensus_prob = None,
                 !.market_clv = None, !.closing_book_decimal = None,
                 !.closing_book_implied_prob = None, !.book_clv = None]

\* C17: no ingest, pick generation, CLV computation or pipeline run deletes a
\* pick or changes a field of it other than the six CLV fields; the CLV
\* fields change only in the calls that run compute_pick_clv, and picks are
\* added only in the calls that run generate_consensus_picks
C17_PicksAppendOnlyClvByClvEngine ==
    [][/\ Len(picks') >= Len(picks)
       /\ \A i \in DOMAIN picks :
             /\ NonClvFields(picks'[i]) = NonClvFields(picks[i])
             /\ ClvFields(picks'[i]) # ClvFields(picks[i])
                    => response'.op \in {"clv_compute", "run_clv"}
       /\ Len(picks') > Len(picks) => response'.op \in {"generate_picks", "run_picks"}]_vars

\* a generation that found the pick existing and left it with the closing
\* line value computed before
C17_Witness ==
    /\ response.op \in {"generate_picks", "run_picks"}
    /\ \E i \in DOMAIN picks :
          /\ picks[i].clv_computed_at # None
          /\ picks[i].created_at < now
          /\ i \in DOMAIN pick_scores

(***************************************************************************)
(* Claims about the stored snapshot groups (services/ingest.py).           *)
(***************************************************************************)
\* the sides stored with the group and capture time of the snapshot r
SidesWrittenWith(r) ==
    {x.side : x \in {y \in odds_snapshots : /\ y.game_id = r.game_id
                                             /\ y.market_key = r.market_key
                                             /\ y.bookmaker = r.bookmaker
                                             /\ y.point = r.point
                                             /\ y.captured_at = r.captured_at}}

\* C18 (as claimed): every set of OddsSnapshot rows that ingest writes for
\* one (game, market, bookmaker, point, captured_at) holds exactly the
\* market's canonical side set: HOME and AWAY for h2h and spreads (plus DRAW
\* for soccer h2h), OVER and UNDER for totals.
C18_IngestWritesCanonicalSideSets ==
    \A r \in odds_snapshots :
       SidesWrittenWith(r) = clv_required_sides(games[r.game_id].sport_key, r.market_key)

\* the quadruples for which at least one OddsSnapshot row is stored
SnapshotGroups == {GroupOf(r) : r \in odds_snapshots}

\* C19 (as claimed): after any sequence of ingest calls an OddsGroup row
\* exists for a (game, market_key, bookmaker, point) quadruple iff at least
\* one OddsSnapshot has been written for that quadruple, a null point
\* included.
C19_GroupExistsIffSnapshotWritten ==
    DOMAIN odds_groups = SnapshotGroups

(***************************************************************************)
(* The group hash as a function (ingest.py lines 51-77): two groups, each  *)
(* an (event_id, market_key, bookmaker, point) quadruple with a list of    *)
(* side entries, are hashed and their hashes compared.                     *)
(***************************************************************************)
MaxSides == 2

HashSides == {"HOME", "AWAY"}

HashAmericans == {Some(-110), Some(102)}

HashDecimals == {Some(1909), Some(2020)}

\* a side entry with the keys the hash reads
SideEntry(side, american, decimal) ==
    [side |-> side, american |-> american, decimal |-> decimal]

\* the same entry with the derived keys, as ingest builds it and as the
\* tests pass it
WithDerived(entry) ==
    [side |-> entry.side, american |-> entry.american, decimal |-> entry.decimal,
     implied_prob |-> Some(5000), fair_prob |-> Some(5000), captured_at |-> Some(1)]

SideEntries ==
    {SideEntry(side, american, decimal) :
        side \in HashSides, american \in HashAmericans, decimal \in HashDecimals}

SideLists == UNION {[1..n -> SideEntries] : n \in 1..MaxSides}

HashedGroup(event_id, market_key, bookmaker, point, side_prices) ==
    [event_id |-> event_id, market_key |-> market_key, bookmaker |-> bookmaker,
     point |-> point, side_prices |-> side_prices]

\* the first group, and the groups that differ from it in one component of
\* the quadruple
GroupQuadruples ==
    {<<"e1", "h2h", "fanduel", None>>, <<"e2", "h2h", "fanduel", None>>,
     <<"e1", "spreads", "fanduel", None>>, <<"e1", "h2h", "draftkings", None>>,
     <<"e1", "h2h", "fanduel", Some(35)>>}

HashInit ==
    /\ SchedInit
    /\ settings = DefaultSettings
    /\ now = 0 /\ games = <<>> /\ odds_groups = <<>> /\ odds_snapshots = {}
    /\ picks = <<>> /\ pick_scores = <<>> /\ clv_sport_stats = {} /\ calibration_runs = <<>>
    /\ \E first \in SideLists, second \in SideLists, q \in GroupQuadruples,
          derived \in BOOLEAN :
           response =
               [op |-> "groups",
                first |-> HashedGroup("e1", "h2h", "fanduel", None, list(first)),
                second |-> HashedGroup(q[1], q[2], q[3], q[4],
                               IF derived
                               THEN list([i \in DOMAIN second |-> WithDerived(second[i])])
                               ELSE list(second))]

group_hash_of(g) ==
    build_normalized_group_representation(g.event_id, g.market_key, g.bookmaker,
                                          g.point, g.side_prices)

hash_groups ==
    /\ response.op = "groups"
    /\ response' = [op |-> "build_normalized_group_representation",
                    first |-> response.first, second |-> response.second,
                    first_hash |-> group_hash_of(response.first),
                    second_hash |-> group_hash_of(response.second)]
    /\ UNCHANGED <<settings, eval_vars, now, odds_vars, picks_vars, sched_vars>>

HashNext == hash_groups

HashSpec == HashInit /\ [][HashNext]_vars

\* the (side, american, decimal) part of the entries, with multiplicity
PricedSides(side_prices) ==
    LET entries == [i \in DOMAIN side_prices |->
                       SideEntry(side_prices[i].side, side_prices[i].american,
                                 side_prices[i].decimal)]
    IN  [e \in Range(entries) |-> Cardinality({i \in DOMAIN entries : entries[i] = e})]

SameQuadruple(a, b) ==
    /\ a.event_id = b.event_id /\ a.market_key = b.market_key
    /\ a.bookmaker = b.bookmaker /\ a.point = b.point

\* the second list is a permutation of the first, derived keys apart
SameSidesReordered(a, b) == PricedSides(a.side_prices) = PricedSides(b.side_prices)

\* C20 (as claimed): build_normalized_group_representation returns the same
\* hash for every permutation of the side list, whatever derived fields
\* (implied_prob, fair_prob, captured_at) the entries carry, and a different
\* hash when a side's american or decimal, the point, the event_id, the
\* market_key or the bookmaker differs.
C20_HashIgnoresOrderAndDerivedFields ==
    response.op = "build_normalized_group_representation" =>
        (response.first_hash = response.second_hash
            <=> /\ SameQuadruple(response.first, response.second)
                /\ SameSidesReordered(response.first, response.second))

\* the same statement for lists that name every side once, as a group with
\* a canonical side set does
HashIgnoresOrderOfDistinctSides ==
    /\ response.op = "build_normalized_group_representation"
    /\ \A g \in {response.first, response.second} :
          \A i, j \in DOMAIN g.side_prices :
             g.side_prices[i].side = g.side_prices[j].side => i = j
    => (response.first_hash = response.second_hash
            <=> /\ SameQuadruple(response.first, response.second)
                /\ SameSidesReordered(response.first, response.second))

(***************************************************************************)
(* The ingest run (services/pipeline.py lines 55-86 and 263-295):          *)
(* run_and_log(run_type = "ingest") ingests every resolved sport on one    *)
(* session and logs one PipelineRun row.                                   *)
(***************************************************************************)
MaxIngestRuns == 2

\* what fetch_odds does for a sport: it returns the provider's events, or
\* raises (requests' raise_for_status, odds_api.py line 30)
Fetched(events) == [raised |-> FALSE, events |-> events]

FetchError == [raised |-> TRUE, events |-> <<>>]

\* str(exc) of the exception that ended the sport's ingest
ingest_error_message(sport, fetched) ==
    IF sport \notin settings.odds_sports_whitelist THEN "not in ODDS_SPORTS_WHITELIST"
    ELSE IF fetched.raised THEN "fetch_odds raised"
    ELSE "event raised"

\* ingest_odds_for_sport on the run's session: the rows it adds stay pending
\* in the session when it raises, no caller rolls the session back
ingest_call(run, sport, fetched) ==
    LET st == [games |-> run.games, odds_groups |-> run.odds_groups,
               odds_snapshots |-> run.odds_snapshots,
               summary |-> ingest_summary, raised |-> FALSE]
    IN  IF fetched.raised /\ sport \in settings.odds_sports_whitelist
        THEN [st EXCEPT !.raised = TRUE]
        ELSE ingest_odds_for_sport(st, sport, fetched.events, run.clock + 1)

\* _run_per_sport lines 61-65: the handler's summary goes to per_sport, an
\* exception's message to errors; the session is the handler's in both cases
run_after_sport(run, sport, fetched, done) ==
    [games |-> done.games, odds_groups |-> done.odds_groups,
     odds_snapshots |-> done.odds_snapshots,
     clock |-> run.clock + 1,
     attempted |-> Append(run.attempted, sport),
     per_sport |-> IF done.raised THEN run.per_sport
                   ELSE (sport :> done.summary) @@ run.per_sport,
     errors |-> IF done.raised
                THEN (sport :> ingest_error_message(sport, fetched)) @@ run.errors
                ELSE run.errors]

\* a loop that stops at the first sport whose ingest raises
RECURSIVE run_per_sport_until_error(_, _, _)
run_per_sport_until_error(run, sports, fetched) ==
    IF sports = <<>> \/ run.errors # <<>> THEN run
    ELSE run_per_sport_until_error(
             run_after_sport(run, Head(sports), fetched[Head(sports)],
                             ingest_call(run, Head(sports), fetched[Head(sports)])),
             Tail(sports), fetched)

\* _run_per_sport lines 59-66
RECURSIVE run_per_sport(_, _, _)
run_per_sport(run, sports, fetched) ==
    IF sports = <<>> THEN run
    ELSE run_per_sport(
             run_after_sport(run, Head(sports), fetched[Head(sports)],
                             ingest_call(run, Head(sports), fetched[Head(sports)])),
             Tail(sports), fetched)

\* sum(item.get(field, 0) for item in per_sport.values())
SumPerSport(per_sport, field) ==
    LET keys == sorted_set(DOMAIN per_sport, str_less)
    IN  SumSeq(list([i \in 1..Len(keys) |-> per_sport[keys[i]][field]]))

\* run_ingest lines 73-86
run_ingest_summary(run) ==
    [games_upserted |-> SumPerSport(run.per_sport, "games_upserted"),
     groups_changed |-> SumPerSport(run.per_sport, "groups_changed"),
     snapshot_rows_inserted |-> SumPerSport(run.per_sport, "snapshot_rows_inserted"),
     groups_skipped |-> SumPerSport(run.per_sport, "groups_skipped"),
     sports |-> resolve_sports,
     markets |-> <<>>,
     per_sport |-> run.per_sport,
     errors |-> run.errors,
     errors_count |-> Cardinality(DOMAIN run.errors)]

\* run_ingest lines 69-71: the session starts from the committed tables
run_ingest_result(fetched) ==
    run_per_sport([games |-> games, odds_groups |-> odds_groups,
                   odds_snapshots |-> odds_snapshots, clock |-> now,
                   attempted |-> <<>>, per_sport |-> <<>>, errors |-> <<>>],
                  resolve_sports, fetched)

\* run_and_log(run_type = "ingest"), lines 263-283: run_ingest returns, and
\* _log_run adds the PipelineRun row and commits the session (line 52)
run_ingest(fetched) ==
    \E run \in {run_ingest_result(fetched)} :
        /\ now' = run.clock + 1
        /\ games' = run.games
        /\ odds_groups' = run.odds_groups
        /\ odds_snapshots' = run.odds_snapshots
        /\ pipeline_runs' = log_run(pipeline_runs, "ingest", "ok")
        /\ response' = [op |-> "run_ingest", raised |-> FALSE, fetched |-> fetched,
                        attempted |-> run.attempted,
                        summary |-> run_ingest_summary(run)]
        /\ UNCHANGED <<settings, eval_vars, picks_vars, run_lock, job_pc, http_pc, skip_log, calls>>

\* the provider's answers: an event of each sport, a second event with an
\* outcome that is neither team, or an HTTP error
NbaEvent(fanduel_market) ==
    Event("e1", "basketball_nba", IsoTime(5, 0), <<Book("fanduel", <<fanduel_market>>)>>)

NbaSecondEvent(fanduel_market) ==
    Event("e3", "basketball_nba", IsoTime(5, 0), <<Book("fanduel", <<fanduel_market>>)>>)

NhlEvent(fanduel_market) ==
    Event("e2", "icehockey_nhl", IsoTime(5, 0), <<Book("fanduel", <<fanduel_market>>)>>)

FetchedChoices(sport) ==
    IF sport = "basketball_nba"
    THEN {Fetched(<<NbaEvent(H2hA)>>), Fetched(<<NbaEvent(H2hB)>>),
          Fetched(<<NbaEvent(H2hA), NbaSecondEvent(H2hUnmappable)>>), FetchError}
    ELSE {Fetched(<<NhlEvent(H2hA)>>), Fetched(<<NhlEvent(H2hUnmappable)>>), FetchError}

AutorunChoices == {<<>>, <<"icehockey_nhl", "basketball_nba", "icehockey_nhl">>}

WhitelistChoices == {{"basketball_nba"}, {"basketball_nba", "icehockey_nhl"}}

IngestRunInit ==
    /\ SchedInit
    /\ OddsInit
    /\ settings \in {[DefaultSettings EXCEPT !.delta_hash_strict = strict,
                                             !.odds_sports_whitelist = whitelist,
                                             !.sports_autorun = autorun] :
                        strict \in BOOLEAN, whitelist \in WhitelistChoices,
                        autorun \in AutorunChoices}

IngestRunNext ==
    /\ Len(pipeline_runs) < MaxIngestRuns
    /\ \E nba \in FetchedChoices("basketball_nba"), nhl \in FetchedChoices("icehockey_nhl") :
          run_ingest(("basketball_nba" :> nba) @@ ("icehockey_nhl" :> nhl))

IngestRunSpec == IngestRunInit /\ [][IngestRunNext]_vars

\* C21 (as claimed): the rows added by an ingest_odds_for_sport call are
\* committed together at its end, and when the call raises none of the rows
\* it added is ever committed, also not by the commit of the next sport's
\* ingest or of the PipelineRun log write: after an ingest run the committed
\* tables hold no new row of a sport recorded in errors.
C21_FailedIngestCommitsNothing ==
    [][response'.op = "run_ingest" /\ pipeline_runs' # pipeline_runs =>
          \A sport \in DOMAIN response'.summary.errors :
             \A i \in DOMAIN response'.fetched[sport].events :
                LET id == response'.fetched[sport].events[i].id
                IN  /\ id \in DOMAIN games' => id \in DOMAIN games /\ games'[id] = games[id]
                    /\ \A r \in odds_snapshots' \ odds_snapshots : r.game_id # id]_vars

\* an outcome of the payload cannot be normalised: its event raises
EventRaises(event) ==
    \E b \in DOMAIN event.bookmakers :
       \E m \in DOMAIN event.bookmakers[b].markets :
          \E o \in DOMAIN event.bookmakers[b].markets[m].outcomes :
             side_price_raises(side_price(event, event.bookmakers[b].markets[m].key,
                                          event.bookmakers[b].markets[m].outcomes[o]))

\* the ingest of the sport raises: the sport is not whitelisted, fetch_odds
\* raises, or an event raises with DELTA_HASH_STRICT on
IngestFails(sport, fetched) ==
    \/ sport \notin settings.odds_sports_whitelist
    \/ fetched.raised
    \/ settings.delta_hash_strict /\ \E i \in DOMAIN fetched.events : EventRaises(fetched.events[i])

\* C23: run_ingest attempts the ingest of every sport of resolve_sports once,
\* in sorted order, also after the ingest of an earlier sport raised; every
\* failing sport is in errors with its message, errors_count is the number
\* of failing sports, the other sports are in per_sport, and run_ingest does
\* not raise (its run is logged with status ok).
C23_RunIngestIsolatesSportFailures ==
    response.op = "run_ingest" =>
        LET failing == {sport \in Range(resolve_sports) :
                           IngestFails(sport, response.fetched[sport])}
        IN  /\ response.attempted = resolve_sports
            /\ \A i, k \in DOMAIN response.attempted :
                  i < k => str_less(response.attempted[i], response.attempted[k])
            /\ DOMAIN response.summary.errors = failing
            /\ \A sport \in failing :
                  response.summary.errors[sport] =
                      ingest_error_message(sport, response.fetched[sport])
            /\ response.summary.errors_count = Cardinality(failing)
            /\ DOMAIN response.summary.per_sport = Range(resolve_sports) \ failing
            /\ ~response.raised
            /\ pipeline_runs[Len(pipeline_runs)] = PipelineRun("ingest", "ok")

\* the first sport's ingest raised and the second sport was ingested
C23_Witness ==
    /\ response.op = "run_ingest"
    /\ response.attempted = <<"basketball_nba", "icehockey_nhl">>
    /\ DOMAIN response.summary.errors = {"basketball_nba"}
    /\ DOMAIN response.summary.per_sport = {"icehockey_nhl"}
    /\ response.summary.snapshot_rows_inserted = 2
    /\ \E r \in odds_snapshots : r.game_id = "e2"

(***************************************************************************)
(* The cycle (services/pipeline.py lines 161-214): run_cycle runs the      *)
(* three steps on one session.  Every step ends with the commit of its     *)
(* _log_run, so a step with its log row is one action; response holds the  *)
(* locals of run_cycle.  A step function returns its summary or raises.    *)
(***************************************************************************)
MaxCycles == 2

StepOutcomes == {"returned", "raised"}

\* lines 175-196 for one step: cycle_stats and cycle_errors after the step
cycle_after_step(cycle, step, outcome) ==
    [cycle EXCEPT !.at = step,
                  !.called = Append(@, step),
                  !.outcomes = Append(@, outcome),
                  !.errors = IF outcome = "raised" THEN @ \cup {step} ELSE @]

\* the status of the row a step logs: lines 179 and 191
step_status(outcome) == IF outcome = "raised" THEN "error" ELSE "ok"

\* a cycle row that reports the last step only
cycle_status_of_last_step(cycle) ==
    IF cycle.outcomes[Len(cycle.outcomes)] = "raised" THEN "error" ELSE "ok"

\* line 208: ok when no step raised
cycle_status(cycle) == IF cycle.errors = {} THEN "ok" ELSE "error"

\* lines 162-165, then the ingest step
cycle_ingest(fetched, outcome) ==
    /\ response.op = "run_cycle" => response.at = "done"
    /\ calls < MaxCycles
    /\ calls' = calls + 1
    /\ \E run \in {run_ingest_result(fetched)} :
          /\ now' = IF outcome = "raised" THEN now + 1 ELSE run.clock + 1
          /\ games' = IF outcome = "raised" THEN games ELSE run.games
          /\ odds_groups' = IF outcome = "raised" THEN odds_groups ELSE run.odds_groups
          /\ odds_snapshots' = IF outcome = "raised" THEN odds_snapshots
                               ELSE run.odds_snapshots
    /\ pipeline_runs' = log_run(pipeline_runs, "ingest", step_status(outcome))
    /\ response' = cycle_after_step([op |-> "run_cycle", at |-> "start", called |-> <<>>,
                                     outcomes |-> <<>>, errors |-> {}],
                                    "ingest", outcome)
    /\ UNCHANGED <<settings, eval_vars, picks_vars, run_lock, job_pc, http_pc, skip_log>>

\* the picks step
cycle_picks(outcome) ==
    /\ response.op = "run_cycle" /\ response.at = "ingest"
    /\ now' = now + 1
    /\ \E done \in {run_picks_result(now + 1)} :
          /\ picks' = IF outcome = "raised" THEN picks ELSE done.picks
          /\ pick_scores' = IF outcome = "raised" THEN pick_scores ELSE done.pick_scores
    /\ pipeline_runs' = log_run(pipeline_runs, "picks", step_status(outcome))
    /\ response' = cycle_after_step(response, "picks", outcome)
    /\ UNCHANGED <<settings, eval_vars, odds_vars, run_lock, job_pc, http_pc, skip_log, calls>>

\* the clv step
cycle_clv(force, outcome) ==
    /\ response.op = "run_cycle" /\ response.at = "picks"
    /\ now' = now + 1
    /\ \E done \in {run_clv_result(force, now + 1)} :
          picks' = IF outcome = "raised" THEN picks ELSE done.picks
    /\ pipeline_runs' = log_run(pipeline_runs, "clv", step_status(outcome))
    /\ response' = cycle_after_step(response, "clv", outcome)
    /\ UNCHANGED <<settings, eval_vars, odds_vars, pick_scores, run_lock, job_pc, http_pc,
                   skip_log, calls>>

\* lines 198-214: the cycle row and the returned summary
cycle_log ==
    /\ response.op = "run_cycle" /\ response.at = "clv"
    /\ pipeline_runs' = log_run(pipeline_runs, "cycle", cycle_status(response))
    /\ response' = [response EXCEPT !.at = "done"]
    /\ UNCHANGED <<settings, eval_vars, now, odds_vars, picks_vars, run_lock, job_pc, http_pc,
                   skip_log, calls>>

CycleFetched ==
    {Fetched(<<GameStarting(H2hBooks(H2hOutlier))>>), Fetched(<<GameToday(H2hBooks(H2hB))>>),
     FetchError}

CycleInit ==
    /\ SchedInit
    /\ OddsInit
    /\ settings = PicksSettings

CycleNext ==
    \/ \E fetched \in CycleFetched, outcome \in StepOutcomes :
          cycle_ingest(("basketball_nba" :> fetched), outcome)
    \/ \E outcome \in StepOutcomes : cycle_picks(outcome)
    \/ \E force \in BOOLEAN, outcome \in StepOutcomes : cycle_clv(force, outcome)
    \/ cycle_log

CycleSpec == CycleInit /\ [][CycleNext]_vars

\* the rows of the cycle in progress: the rows after those of the cycles
\* that ended before it
CycleRows == SubSeq(pipeline_runs, 4 * (calls - 1) + 1, Len(pipeline_runs))

\* C22: run_cycle runs ingest, picks and clv in that order and appends one
\* PipelineRun row per step and then one row of run_type cycle, four rows
\* per cycle; a step that raises is logged with status error and the later
\* steps still run; the cycle row has status error iff a step raised.
C22_CycleLogsEveryStepInOrder ==
    response.op = "run_cycle" =>
        LET n == Len(response.called)
        IN  /\ response.called = SubSeq(CycleSteps, 1, n)
            /\ Len(CycleRows) = IF response.at = "done" THEN n + 1 ELSE n
            /\ \A i \in 1..n :
                  CycleRows[i] = PipelineRun(CycleSteps[i],
                                             IF response.outcomes[i] = "raised"
                                             THEN "error" ELSE "ok")
            /\ response.at = "done" =>
                  /\ n = Len(CycleSteps)
                  /\ CycleRows[n + 1] =
                        PipelineRun("cycle",
                                    IF \E i \in 1..n : response.outcomes[i] = "raised"
                                    THEN "error" ELSE "ok")

\* a second cycle ended in which the ingest step raised, the picks step
\* stored a pick from the odds of the first cycle and the clv step returned
C22_Witness ==
    /\ response.op = "run_cycle" /\ response.at = "done"
    /\ response.outcomes = <<"raised", "returned", "returned">>
    /\ Len(pipeline_runs) = 8
    /\ pipeline_runs[8] = PipelineRun("cycle", "error")
    /\ pipeline_runs[6] = PipelineRun("picks", "ok")
    /\ picks # <<>>

(***************************************************************************)
(* The scheduler's life (core/scheduler.py lines 71-132, main.py lines     *)
(* 12-19): the application starts the scheduler at startup and stops it at *)
(* shutdown.  response holds the module's _scheduler, the value the last   *)
(* start_scheduler returned and what its SELECT 1 probe would answer.      *)
(***************************************************************************)
JobIds == {"ingest_job", "picks_job", "clv_job"}

job_id(j) == CASE j = "ingest" -> "ingest_job"
               [] j = "picks" -> "picks_job"
               [] j = "clv" -> "clv_job"

\* BackgroundScheduler after the three add_job calls and start(), lines 85-120
StartedScheduler == [running |-> TRUE, jobs |-> JobIds]

\* scheduler_is_running, lines 131-132
scheduler_is_running(scheduler) == scheduler # None /\ scheduler[1].running

\* scheduler_next_run_times, lines 135-138: the ids of the scheduled jobs
scheduled_jobs(scheduler) == IF scheduler = None THEN {} ELSE scheduler[1].jobs

\* a start that does not look at the database
start_refused_ignoring_db(config, reachable) == ~config.enable_scheduler

\* start_scheduler lines 74-80: the two refusals
start_refused(config, reachable) ==
    \/ ~config.enable_scheduler
    \/ config.sched_require_db /\ (config.database_url = "" \/ ~reachable)

\* start_scheduler lines 71-121: the returned value and the module's _scheduler
start_scheduler(scheduler, config, reachable) ==
    IF start_refused(config, reachable)
    THEN [started |-> FALSE, scheduler |-> scheduler]
    ELSE IF scheduler_is_running(scheduler)
    THEN [started |-> TRUE, scheduler |-> scheduler]
    ELSE [started |-> TRUE, scheduler |-> Some(StartedScheduler)]

\* stop_scheduler lines 124-128
stop_scheduler(scheduler) == None

\* main.py lines 12-14
startup_event(reachable) ==
    /\ response.app = "down"
    /\ \E done \in {start_scheduler(response.scheduler, settings, reachable)} :
          response' = [response EXCEPT !.app = "up",
                                       !.scheduler = done.scheduler,
                                       !.started = Some(done.started),
                                       !.reachable = reachable]
    /\ UNCHANGED <<sched_vars, settings, eval_vars, now, odds_vars, picks_vars>>

\* main.py lines 17-19
shutdown_event ==
    /\ response.app = "up"
    /\ response' = [response EXCEPT !.app = "down",
                                    !.scheduler = stop_scheduler(response.scheduler),
                                    !.started = None]
    /\ UNCHANGED <<sched_vars, settings, eval_vars, now, odds_vars, picks_vars>>

\* a tick of an interval job happens only while its scheduler runs
job_scheduled(j) ==
    /\ scheduler_is_running(response.scheduler)
    /\ job_id(j) \in scheduled_jobs(response.scheduler)

SchedulerSettings ==
    [enable_scheduler : BOOLEAN, sched_require_db : BOOLEAN,
     database_url : {"", "postgresql://db/print_city"}]

LifeInit ==
    /\ SchedInit
    /\ now = 0
    /\ games = <<>>
    /\ odds_groups = <<>>
    /\ odds_snapshots = {}
    /\ picks = <<>>
    /\ pick_scores = <<>> /\ clv_sport_stats = {} /\ calibration_runs = <<>>
    /\ settings \in SchedulerSettings
    /\ response = [op |-> "lifespan", app |-> "down", scheduler |-> None,
                   started |-> None, reachable |-> TRUE]

LifeNext ==
    \/ \E reachable \in BOOLEAN : startup_event(reachable)
    \/ shutdown_event
    \/ \E j \in Jobs : job_scheduled(j) /\ run_job_tick_acquired(j) /\ UNCHANGED db_vars
    \/ \E j \in Jobs : job_scheduled(j) /\ run_job_tick_skipped(j) /\ UNCHANGED db_vars
    \/ \E j \in Jobs : run_job_open_session(j) /\ UNCHANGED db_vars
    \/ \E j \in Jobs : run_job_run_and_log(j) /\ UNCHANGED db_vars
    \/ \E j \in Jobs : run_job_release(j) /\ UNCHANGED db_vars

LifeSpec == LifeInit /\ [][LifeNext]_vars

\* the last start_scheduler of the running application returned False
StartWasRefused == response.app = "up" /\ response.started = Some(FALSE)

\* C24: when enable_scheduler is false, or sched_require_db is true and the
\* SELECT 1 probe fails, start_scheduler returns False, schedules no job,
\* and scheduler_is_running() is False afterwards: until the application
\* is started again no job is scheduled and no tick fires.
C24_RefusedStartSchedulesNothing ==
    [][/\ (/\ response.app = "down" /\ response'.app = "up"
           /\ \/ ~settings.enable_scheduler
              \/ settings.sched_require_db /\ ~response'.reachable)
          => /\ response'.started = Some(FALSE)
             /\ scheduled_jobs(response'.scheduler) = {}
             /\ ~scheduler_is_running(response'.scheduler)
       /\ StartWasRefused
          => /\ ~scheduler_is_running(response.scheduler)
             /\ scheduled_jobs(response.scheduler) = {}
             /\ calls' = calls /\ skip_log' = skip_log]_vars

\* the application came up again with the database unreachable after a run
\* in which the scheduler had run a job: the start was refused because of the
\* probe alone
C24_Witness ==
    /\ StartWasRefused
    /\ settings.enable_scheduler /\ settings.sched_require_db
    /\ settings.database_url # "" /\ ~response.reachable
    /\ pipeline_runs # <<>>

(***************************************************************************)
(* Priors (intelligence/priors.py, api/pqs.py): POST /pqs/score rolls the  *)
(* market CLV of the picks into one ClvSportStat row per (sport, market).  *)
(* Means and medians are kept to four decimals of a basis point, the      *)
(* share of positive values to six decimals, as the code rounds them; the  *)
(* Sharpe-like ratio is kept to three decimals.                            *)
(***************************************************************************)
MaxPriorPicks == 3

MaxPriorCalls == 5

BpsScale == 10000

PctScale == 1000000

SharpeScale == 1000

\* _bps, lines 14-15, on a probability difference in units of 1/ProbScale
bps(value) == (value * 10000) \div ProbScale

\* round(a / b) for b > 0
round_div(a, b) ==
    IF a >= 0 THEN (2 * a + b) \div (2 * b) ELSE -((2 * (-a) + b) \div (2 * b))

RECURSIVE isqrt_between(_, _, _)
\* the largest r in lo..hi with r * r <= x
isqrt_between(lo, hi, x) ==
    IF lo = hi THEN lo
    ELSE LET mid == (lo + hi + 1) \div 2
         IN  IF mid * mid <= x THEN isqrt_between(mid, hi, x)
             ELSE isqrt_between(lo, mid - 1, x)

isqrt(x) == isqrt_between(0, 32767, x)

\* lines 20-28: the picks whose CLV is computed and that have a market CLV
clv_computed_picks(pk) ==
    {i \in 1..Len(pk) : pk[i].clv_computed_at # None /\ pk[i].market_clv # None}

\* the order of line 26: clv_computed_at descending, then id descending
more_recent(pk, j, i) ==
    \/ pk[j].clv_computed_at[1] > pk[i].clv_computed_at[1]
    \/ pk[j].clv_computed_at[1] = pk[i].clv_computed_at[1] /\ j > i

prior_key(gm, pk, i) == <<gm[pk[i].game_id].sport_key, pk[i].market_key>>

\* lines 30-34: per key, the first clv_prior_window picks in that order
grouped_picks(gm, pk, key, window) ==
    LET of_key == {i \in clv_computed_picks(pk) : prior_key(gm, pk, i) = key}
    IN  {i \in of_key : Cardinality({j \in of_key : more_recent(pk, j, i)}) < window}

grouped_keys(gm, pk, window) ==
    {key \in {prior_key(gm, pk, i) : i \in clv_computed_picks(pk)} :
        grouped_picks(gm, pk, key, window) # {}}

\* statistics.median of the values of the members
median_scaled(pk, members) ==
    LET order == sorted_set(members,
                            LAMBDA a, b : \/ pk[a].market_clv[1] < pk[b].market_clv[1]
                                          \/ /\ pk[a].market_clv[1] = pk[b].market_clv[1]
                                             /\ a < b)
        n == Len(order)
        val(k) == bps(pk[order[k]].market_clv[1])
    IN  IF n % 2 = 1 THEN val((n + 1) \div 2) * BpsScale
        ELSE round_div((val(n \div 2) + val(n \div 2 + 1)) * BpsScale, 2)

\* mean / pstdev of the values: with S the sum and Q the sum of squares of
\* n values, mean / pstdev = S / sqrt(n * Q - S * S)
sharpe_scaled(n, S, Q) ==
    LET D == n * Q - S * S
        magnitude == isqrt((SharpeScale * SharpeScale * S * S) \div D)
    IN  IF n > 1 /\ D > 0
        THEN (IF S < 0 THEN -magnitude ELSE magnitude)
        ELSE 0

\* lines 53-54: the ratio is computed from the values whether or not the
\* group is weak
sharpe_published(weak, n, S, Q) == sharpe_scaled(n, S, Q)

\* lines 39-72: the row of one group
ClvSportStat(key, window, min_n, as_of, pk, members) ==
    LET ids == sorted_set(members, LAMBDA a, b : a < b)
        market_vals == list([k \in 1..Len(ids) |-> bps(pk[ids[k]].market_clv[1])])
        book_ids == SelectSeq(ids, LAMBDA i : pk[i].book_clv # None)
        book_vals == list([k \in 1..Len(book_ids) |-> bps(pk[book_ids[k]].book_clv[1])])
        n == Len(market_vals)
        weak == n < min_n
        S == SumSeq(market_vals)
        Q == SumSeq(list([k \in 1..n |-> market_vals[k] * market_vals[k]]))
        positive == Cardinality({k \in 1..n : market_vals[k] > 0})
    IN  [sport_key |-> key[1], market_key |-> key[2], side_type |-> None,
         window_size |-> window, as_of |-> as_of, n |-> n,
         mean_market_clv_bps |-> IF n = 0 \/ weak THEN 0 ELSE round_div(S * BpsScale, n),
         median_market_clv_bps |-> IF n = 0 \/ weak THEN 0 ELSE median_scaled(pk, members),
         pct_positive_market_clv |->
             IF n = 0 \/ weak THEN PctScale \div 2 ELSE round_div(positive * PctScale, n),
         mean_same_book_clv_bps |->
             IF book_vals = <<>> THEN None
             ELSE Some(round_div(SumSeq(book_vals) * BpsScale, Len(book_vals))),
         sharpe_like |-> IF n = 0 THEN 0 ELSE sharpe_published(weak, n, S, Q),
         is_weak |-> IF weak THEN 1 ELSE 0,
         last_updated_at |-> as_of]

\* a recompute that deletes nothing
delete_window_nothing(stats, window) == stats

\* line 36: delete(ClvSportStat).where(window_size == clv_prior_window)
delete_window(stats, window) == {r \in stats : r.window_size # window}

\* recompute_clv_sport_stats, lines 18-76: the table after the commit
recompute_clv_sport_stats(stats, gm, pk, config, as_of) ==
    delete_window(stats, config.clv_prior_window)
    \cup {ClvSportStat(key, config.clv_prior_window, config.clv_min_n_for_prior, as_of, pk,
                       grouped_picks(gm, pk, key, config.clv_prior_window)) :
             key \in grouped_keys(gm, pk, config.clv_prior_window)}

\* POST /pqs/score, api/pqs.py lines 34-37
pqs_score ==
    /\ now < MaxPriorCalls
    /\ now' = now + 1
    /\ clv_sport_stats' = recompute_clv_sport_stats(clv_sport_stats, games, picks,
                                                    settings, now + 1)
    /\ response' = [op |-> "pqs_score", as_of |-> now + 1,
                    inserted |-> Cardinality(grouped_keys(games, picks,
                                                          settings.clv_prior_window))]
    /\ UNCHANGED <<settings, odds_vars, picks_vars, calibration_runs, sched_vars>>

\* compute_pick_clv lines 157-192 as the priors see it: a pick without CLV
\* gets its market CLV, its same-book CLV when its book quoted the close,
\* and clv_computed_at
clv_written(i, market_value, book_value) ==
    /\ now < MaxPriorCalls
    /\ i \in 1..Len(picks)
    /\ picks[i].clv_computed_at = None
    /\ now' = now + 1
    /\ picks' = [picks EXCEPT ![i] = [@ EXCEPT !.market_clv = Some(market_value),
                                               !.book_clv = book_value,
                                               !.clv_computed_at = Some(now + 1)]]
    /\ UNCHANGED <<settings, odds_vars, pick_scores, eval_vars, response, sched_vars>>

PriorWindows == {1, 2}

PriorMinN == {2, 3}

PriorSettings ==
    {[clv_prior_window |-> w, clv_min_n_for_prior |-> m] : w \in PriorWindows, m \in PriorMinN}
    \ {[clv_prior_window |-> 1, clv_min_n_for_prior |-> 3]}

\* config.py lines 138-139: a new process reads CLV_PRIOR_WINDOW and
\* CLV_MIN_N_FOR_PRIOR from its environment
get_settings(config) ==
    /\ now < MaxPriorCalls
    /\ settings # config
    /\ now' = now + 1
    /\ settings' = config
    /\ UNCHANGED <<odds_vars, picks_vars, eval_vars, response, sched_vars>>

\* the market CLV a pick gets, with its same-book CLV
ClvWrites == {<<-2, None>>, <<1, Some(1)>>, <<3, None>>}

PriorPick(game_id, market_key) ==
    [game_id |-> game_id, market_key |-> market_key, clv_computed_at |-> None,
     market_clv |-> None, book_clv |-> None]

\* the picks of two sports, in id order
PriorPickLists ==
    {[i \in 1..MaxPriorPicks |-> PriorPick("e1", "h2h")],
     [i \in 1..MaxPriorPicks |-> PriorPick(IF i = 2 THEN "e2" ELSE "e1", "h2h")],
     [i \in 1..MaxPriorPicks |-> PriorPick("e1", IF i = 1 THEN "totals" ELSE "h2h")]}

PriorsInit ==
    /\ SchedInit
    /\ now = 0
    /\ games = ("e1" :> Game(Event("e1", "basketball_nba", IsoTime(4, 0), <<>>)))
               @@ ("e2" :> Game(Event("e2", "icehockey_nhl", IsoTime(4, 0), <<>>)))
    /\ odds_groups = <<>>
    /\ odds_snapshots = {}
    /\ \E pk \in PriorPickLists : picks = list(pk)
    /\ pick_scores = <<>>
    /\ clv_sport_stats = {}
    /\ calibration_runs = <<>>
    /\ settings \in PriorSettings
    /\ response = NoResponse

PriorsNext ==
    \/ pqs_score
    \/ \E i \in 1..MaxPriorPicks, written \in ClvWrites :
          clv_written(i, written[1], written[2])
    \/ \E config \in PriorSettings : get_settings(config)

PriorsSpec == PriorsInit /\ [][PriorsNext]_vars

\* the step is a recompute of the priors
RecomputeStep == now' = now + 1 /\ response'.op = "pqs_score" /\ response'.as_of = now'

CurrentWindowRows(stats) == {r \in stats : r.window_size = settings.clv_prior_window}

PicksWithClvOf(sport_key, market_key) ==
    {i \in 1..Len(picks) : /\ picks[i].clv_computed_at # None
                           /\ picks[i].market_clv # None
                           /\ games[picks[i].game_id].sport_key = sport_key
                           /\ picks[i].market_key = market_key}

\* C25: after every recompute_clv_sport_stats the ClvSportStat rows of the
\* current clv_prior_window are exactly the rows of that recompute: one row
\* per (sport_key, market_key) that has a CLV-computed pick with a
\* market_clv, each over at most clv_prior_window of the most recent such
\* picks, and no row of an earlier recompute for the window remains; the
\* table changes in no other step, so the delete and the inserts become
\* visible together.
C25_RecomputeReplacesWindowRows ==
    [][/\ clv_sport_stats' # clv_sport_stats => RecomputeStep
       /\ RecomputeStep =>
            LET rows == CurrentWindowRows(clv_sport_stats')
                keys == {<<r.sport_key, r.market_key>> : r \in rows}
            IN  /\ \A r \in rows : r.as_of = now'
                /\ Cardinality(rows) = Cardinality(keys)
                /\ keys = {<<games[picks[i].game_id].sport_key, picks[i].market_key>> :
                              i \in {k \in 1..Len(picks) :
                                        /\ picks[k].clv_computed_at # None
                                        /\ picks[k].market_clv # None}}
                /\ \A r \in rows :
                      /\ r.n = Min2(settings.clv_prior_window,
                                    Cardinality(PicksWithClvOf(r.sport_key, r.market_key)))
                      /\ r.n >= 1
                /\ response'.inserted = Cardinality(rows)]_vars

\* a recompute replaced the rows of an earlier recompute of the same window
\* after another pick of the group got its CLV, with the group larger than
\* the window
C25_Witness ==
    /\ response.op = "pqs_score" /\ response.as_of = now
    /\ settings.clv_prior_window = 2
    /\ \E r \in clv_sport_stats :
          /\ r.window_size = 2 /\ r.as_of = now /\ r.n = 2
          /\ Cardinality(PicksWithClvOf(r.sport_key, r.market_key)) = 3
    /\ \E i \in 1..Len(picks) : picks[i].clv_computed_at = Some(now - 1)
    /\ now = 5

\* C26: a group whose number n of market-CLV values is below
\* clv_min_n_for_prior is published neutral: mean 0, median 0, pct_positive
\* 0.5, sharpe_like 0 and is_weak = 1; a group with n at or above the
\* minimum has is_weak = 0.
C26_WeakPriorIsNeutral ==
    [][RecomputeStep =>
          \A r \in CurrentWindowRows(clv_sport_stats') :
              /\ r.n < settings.clv_min_n_for_prior =>
                    /\ r.mean_market_clv_bps = 0
                    /\ r.median_market_clv_bps = 0
                    /\ 2 * r.pct_positive_market_clv = PctScale
                    /\ r.sharpe_like = 0
                    /\ r.is_weak = 1
              /\ r.n >= settings.clv_min_n_for_prior => r.is_weak = 0]_vars

(***************************************************************************)
(* Calibration (eval/calibration.py, api/calibration.py): a proposal is a  *)
(* CalibrationRun row with the settings snapshot and a bounded patch; the  *)
(* reports of eval/service.py enter as the conditions the patch depends on. *)
(***************************************************************************)
MaxCalibrationCalls == 4

\* _snapshot, lines 13-35
snapshot(config) ==
    [pqs_weights |-> [ev |-> config.pqs_weight_ev,
                      agreement |-> config.pqs_weight_agreement,
                      dispersion |-> config.pqs_weight_dispersion,
                      coverage |-> config.pqs_weight_coverage,
                      sharp_presence |-> config.pqs_weight_sharp_presence,
                      clv_prior |-> config.pqs_weight_clv_prior,
                      time_to_start |-> config.pqs_weight_time_to_start],
     gates |-> [min_books |-> config.min_books,
                sharp_book_min |-> config.sharp_book_min,
                min_minutes_to_start |-> config.min_minutes_to_start,
                max_price_dispersion |-> config.max_price_dispersion,
                min_agreement |-> config.min_agreement],
     sport_defaults |-> [min_pqs |-> config.sport_default_min_pqs,
                         max_picks |-> config.sport_default_max_picks]]

\* lines 56-75: the patch, as the set of its items.  reports.slope_not_positive:
\* the pqs report is sufficient and its bin_mean_slope is <= 0; reports.gates:
\* "kept_below_dropped", "mostly_dropped" or "none"; reports.poor_sport: a
\* sport has pct_positive_clv < 0.45
proposed_patch(config, reports) ==
    (IF reports.slope_not_positive
     THEN {<<"PQS_WEIGHT_EV", Max2((5 * ProbScale) \div 100,
                                   config.pqs_weight_ev - (2 * ProbScale) \div 100)>>,
           <<"PQS_WEIGHT_CLV_PRIOR", Min2((30 * ProbScale) \div 100,
                                          config.pqs_weight_clv_prior
                                              + (2 * ProbScale) \div 100)>>}
     ELSE {})
    \cup (IF reports.gates = "kept_below_dropped"
          THEN {<<"MIN_BOOKS", Max2(4, config.min_books + 1)>>}
          ELSE IF reports.gates = "mostly_dropped"
          THEN {<<"MIN_BOOKS", Max2(4, config.min_books - 1)>>}
          ELSE {})
    \cup (IF reports.poor_sport
          THEN {<<"SPORT_DEFAULT_MIN_PQS",
                  Min2((90 * ProbScale) \div 100,
                       config.sport_default_min_pqs + (3 * ProbScale) \div 100)>>,
                <<"SPORT_DEFAULT_MAX_PICKS", Max2(1, config.sport_default_max_picks - 1)>>}
          ELSE {})

\* lines 40-46: the CLV-computed picks that have a score of the version
clv_scored_picks(pk, scores, config) ==
    {i \in 1..Len(pk) : /\ pk[i].clv_computed_at # None
                        /\ i \in DOMAIN scores
                        /\ scores[i].version = config.pqs_version}

\* lines 77-87
CalibrationRun(created_at, eval_window_start, eval_window_end, config, patch, rationale) ==
    [created_at |-> created_at, eval_window_start |-> eval_window_start,
     eval_window_end |-> eval_window_end, pqs_version |-> config.pqs_version,
     current_config_snapshot_json |-> snapshot(config),
     proposed_config_patch_json |-> patch, rationale_json |-> rationale,
     status |-> "PROPOSED", applied_at |-> None]

\* propose_calibration, lines 38-90, with POST /calibration/propose
calibration_propose(reports) ==
    /\ now < MaxCalibrationCalls
    /\ now' = now + 1
    /\ \E rows \in {clv_scored_picks(picks, pick_scores, settings)} :
          IF rows = {}
          THEN /\ response' = [op |-> "propose_calibration", raised |-> FALSE,
                               status |-> "insufficient_n"]
               /\ UNCHANGED calibration_runs
          ELSE /\ calibration_runs' =
                     Append(calibration_runs,
                            CalibrationRun(now + 1,
                                           SetMin({picks[i].created_at : i \in rows}),
                                           SetMax({picks[i].clv_computed_at[1] : i \in rows}),
                                           settings, proposed_patch(settings, reports),
                                           reports))
               /\ response' = [op |-> "propose_calibration", raised |-> FALSE,
                               status |-> "PROPOSED", id |-> Len(calibration_runs) + 1]
    /\ UNCHANGED <<settings, odds_vars, picks_vars, clv_sport_stats, sched_vars>>

\* an apply that also writes the patch into the live settings
settings_after_apply_patched(config, run) ==
    IF \E item \in run.proposed_config_patch_json : item[1] = "MIN_BOOKS"
    THEN [config EXCEPT !.min_books =
              (CHOOSE item \in run.proposed_config_patch_json : item[1] = "MIN_BOOKS")[2]]
    ELSE config

\* lines 93-98 assign run.status and run.applied_at only: the settings of
\* the process stay as get_settings read them
settings_after_apply(config, run) == config

\* apply_calibration, lines 93-98, with POST /calibration/apply/{run_id}:
\* scalar_one() raises when no row has the id
calibration_apply(run_id) ==
    /\ now < MaxCalibrationCalls
    /\ now' = now + 1
    /\ IF run_id \notin DOMAIN calibration_runs
       THEN /\ response' = [op |-> "apply_calibration", raised |-> TRUE, id |-> run_id]
            /\ UNCHANGED <<calibration_runs, settings>>
       ELSE /\ calibration_runs' =
                  [calibration_runs EXCEPT ![run_id] =
                      [@ EXCEPT !.status = "APPLIED", !.applied_at = Some(now + 1)]]
            /\ settings' = settings_after_apply(settings, calibration_runs[run_id])
            /\ response' = [op |-> "apply_calibration", raised |-> FALSE, id |-> run_id]
    /\ UNCHANGED <<odds_vars, picks_vars, clv_sport_stats, sched_vars>>

ReportChoices ==
    {[slope_not_positive |-> s, gates |-> g, poor_sport |-> p] :
        s \in BOOLEAN, g \in {"kept_below_dropped", "none"}, p \in {FALSE}}
    \cup {[slope_not_positive |-> FALSE, gates |-> "mostly_dropped", poor_sport |-> TRUE]}

\* a pick of the first game with its CLV computed, and its score
CalibrationPick ==
    [PriorPick("e1", "h2h") EXCEPT !.clv_computed_at = Some(0), !.market_clv = Some(1)]

CalibrationInit ==
    /\ SchedInit
    /\ now = 0
    /\ games = ("e1" :> Game(Event("e1", "basketball_nba", IsoTime(4, 0), <<>>)))
    /\ odds_groups = <<>>
    /\ odds_snapshots = {}
    /\ \E scored \in BOOLEAN :
          /\ picks = <<[created_at |-> -1] @@ CalibrationPick>>
          /\ pick_scores = IF scored
                           THEN <<[pick_id |-> 1, version |-> DefaultSettings.pqs_version]>>
                           ELSE <<>>
    /\ clv_sport_stats = {}
    /\ calibration_runs = <<>>
    /\ settings \in {DefaultSettings, [DefaultSettings EXCEPT !.min_books = 3]}
    /\ response = NoResponse

CalibrationNext ==
    \/ \E reports \in ReportChoices : calibration_propose(reports)
    \/ \E run_id \in 1..(MaxCalibrationCalls + 1) : calibration_apply(run_id)

CalibrationSpec == CalibrationInit /\ [][CalibrationNext]_vars

\* the step is a call of apply_calibration
ApplyStep == now' = now + 1 /\ response'.op = "apply_calibration"

\* C27: apply_calibration(run_id) changes only the status (to APPLIED) and
\* applied_at of the named CalibrationRun: the live settings, the run's
\* config snapshot, proposed patch and rationale, and every other
\* CalibrationRun row are unchanged; and no operation moves a
\* CalibrationRun from APPLIED back to PROPOSED.
C27_ApplyChangesStatusOnly ==
    [][/\ ApplyStep =>
            /\ settings' = settings
            /\ DOMAIN calibration_runs' = DOMAIN calibration_runs
            /\ \A i \in DOMAIN calibration_runs :
                  LET old == calibration_runs[i]
                      new == calibration_runs'[i]
                  IN  /\ i # response'.id => new = old
                      /\ i = response'.id => /\ new.status = "APPLIED"
                                             /\ new.applied_at = Some(now')
                      /\ new.current_config_snapshot_json = old.current_config_snapshot_json
                      /\ new.proposed_config_patch_json = old.proposed_config_patch_json
                      /\ new.rationale_json = old.rationale_json
                      /\ new.created_at = old.created_at
                      /\ new.eval_window_start = old.eval_window_start
                      /\ new.eval_window_end = old.eval_window_end
                      /\ new.pqs_version = old.pqs_version
       /\ \A i \in DOMAIN calibration_runs :
             calibration_runs[i].status = "APPLIED" =>
                 /\ i \in DOMAIN calibration_runs'
                 /\ calibration_runs'[i].status = "APPLIED"]_vars

\* the first of two proposals was applied: its patch raises MIN_BOOKS and
\* the live min_books is still the one of its snapshot, and the second
\* proposal, made after the apply, is still PROPOSED
C27_Witness ==
    /\ Len(calibration_runs) = 2
    /\ calibration_runs[1].status = "APPLIED"
    /\ calibration_runs[1].applied_at # None
    /\ calibration_runs[2].status = "PROPOSED"
    /\ calibration_runs[2].created_at > calibration_runs[1].applied_at[1]
    /\ \E item \in calibration_runs[1].proposed_config_patch_json :
          /\ item[1] = "MIN_BOOKS"
          /\ item[2] # settings.min_books
    /\ settings.min_books = calibration_runs[1].current_config_snapshot_json.gates.min_books

(***************************************************************************)
(* score_pick with a prior (intelligence/pqs.py): the published            *)
(* ClvSportStat of the sport and market moves the prior component of the   *)
(* score and the adaptive thresholds; the hard gates do not read it.       *)
(***************************************************************************)
\* a gate order that tests the sharp books first
gate_drop_reason_sharp_first(features) ==
    IF features.sharp_book_count < settings.sharp_book_min THEN Some("sharp_book_min")
    ELSE IF features.book_count < settings.min_books THEN Some("min_books")
    ELSE None

\* score_pick lines 64-82: the reason of the first hard gate that drops the
\* features, None when they pass every gate
gate_drop_reason(features) ==
    IF features.book_count < settings.min_books THEN Some("min_books")
    ELSE IF features.sharp_book_count < settings.sharp_book_min THEN Some("sharp_book_min")
    ELSE IF features.time_to_start_minutes < 0 THEN Some("min_minutes_to_start")
    ELSE IF features.time_to_start_minutes < adaptive_min_minutes_to_start(features)
    THEN Some("min_minutes_to_start")
    ELSE IF features.price_dispersion > max_price_dispersion_hard_ceiling
    THEN Some("max_price_dispersion")
    ELSE IF features.price_dispersion > adaptive_max_price_dispersion(features)
    THEN Some("max_price_dispersion")
    ELSE IF features.agreement_strength < settings.min_agreement THEN Some("min_agreement")
    ELSE IF features.ev < settings.ev_floor THEN Some("ev_floor")
    ELSE None

\* lines 89-91: 0.5 without prior, else clamp((pct_positive - 0.5) * 2 + 0.5)
prior_score(prior) ==
    IF prior = None THEN ProbScale \div 2
    ELSE clamp((2 * prior[1].pct_positive_market_clv - PctScale) \div (PctScale \div ProbScale)
               + ProbScale \div 2)

\* adaptive_thresholds, lines 23-35
adaptive_thresholds_given(prior, sport_key) ==
    LET base == adaptive_thresholds(sport_key)
        pct == prior[1].pct_positive_market_clv
    IN  IF prior = None THEN base
        ELSE IF 100 * pct < 45 * PctScale
        THEN [min_pqs |-> Min2((90 * ProbScale) \div 100,
                               base.min_pqs + (5 * ProbScale) \div 100),
              max_picks |-> Max2(1, base.max_picks - 1)]
        ELSE IF 100 * pct > 60 * PctScale /\ prior[1].is_weak = 0
        THEN [min_pqs |-> Max2((55 * ProbScale) \div 100,
                               base.min_pqs - (2 * ProbScale) \div 100),
              max_picks |-> base.max_picks]
        ELSE base

\* lines 84-114: the weighted score with the prior component
weighted_score_given(features, prior) ==
    LET adaptive_max_price == adaptive_max_price_dispersion(features)
        ev_score == clamp(features.ev * 20)
        agreement_score == clamp(features.agreement_strength)
        dispersion_score ==
            IF adaptive_max_price = 0 THEN ProbScale
            ELSE clamp(ProbScale - (features.price_dispersion * ProbScale) \div adaptive_max_price)
        coverage_score == clamp((features.book_count * ProbScale)
                                    \div Max2(settings.min_books, 10))
        sharp_score == IF features.sharp_book_count >= settings.sharp_book_min
                       THEN ProbScale ELSE 0
        time_score == clamp((features.time_to_start_minutes * ProbScale)
                                \div Max2(settings.time_decay_half_life_min, 1))
    IN  (settings.pqs_weight_ev * ev_score
         + settings.pqs_weight_agreement * agreement_score
         + settings.pqs_weight_dispersion * dispersion_score
         + settings.pqs_weight_coverage * coverage_score
         + settings.pqs_weight_sharp_presence * sharp_score
         + settings.pqs_weight_clv_prior * prior_score(prior)
         + settings.pqs_weight_time_to_start * time_score) \div ProbScale

\* score_pick, lines 57-124, with its prior argument
score_pick_given(features, prior, sport_key) ==
    LET reason == gate_drop_reason(features)
        pqs == weighted_score_given(features, prior)
    IN  IF reason # None THEN PQSResult(0, "DROP", reason)
        ELSE IF pqs >= adaptive_thresholds_given(prior, sport_key).min_pqs
        THEN PQSResult(clamp(pqs), "KEEP", None)
        ELSE PQSResult(clamp(pqs), "DROP", Some("below_min_pqs"))

\* the features of a candidate (intelligence/features.py PickFeatures)
ScoredFeatures ==
    [book_count : {0, 5, 6, 8},
     sharp_book_count : {0, 1, 2},
     time_to_start_minutes : {-1, 10, 240},
     price_dispersion : {0, (50 * ProbScale) \div 100},
     agreement_strength : {(50 * ProbScale) \div 100, ProbScale},
     ev : {-1, (6 * ProbScale) \div 100}]

\* no prior, or the latest ClvSportStat of the sport and market
ScoredPriors ==
    {None}
    \cup {Some([pct_positive_market_clv |-> pct, is_weak |-> weak]) :
             pct \in {(40 * PctScale) \div 100, PctScale \div 2, (70 * PctScale) \div 100},
             weak \in {0, 1}}

ScoreInit ==
    /\ SchedInit
    /\ now = 0
    /\ games = <<>>
    /\ odds_groups = <<>>
    /\ odds_snapshots = {}
    /\ picks = <<>>
    /\ pick_scores = <<>>
    /\ clv_sport_stats = {}
    /\ calibration_runs = <<>>
    /\ settings \in {DefaultSettings,
                     [DefaultSettings EXCEPT !.min_books = 9, !.sharp_book_min = 2]}
    /\ \E features \in ScoredFeatures, prior \in ScoredPriors,
          sport_key \in {"basketball_nba", "basketball_ncaab"} :
          response = [op |-> "features", features |-> features, prior |-> prior,
                      sport_key |-> sport_key]

\* picks.py line 153: the candidate's features are scored
score_features ==
    /\ response.op = "features"
    /\ response' = [op |-> "score_pick", features |-> response.features,
                    prior |-> response.prior, sport_key |-> response.sport_key,
                    result |-> score_pick_given(response.features, response.prior,
                                                response.sport_key)]
    /\ UNCHANGED <<settings, now, odds_vars, picks_vars, eval_vars, sched_vars>>

ScoreNext == score_features

ScoreSpec == ScoreInit /\ [][ScoreNext]_vars

\* C28: for every PickFeatures with book_count < min_books, whatever the
\* other features, the prior and the sport, score_pick returns DROP with
\* drop_reason min_books: the gate comes before every other gate and before
\* the score threshold.
C28_MinBooksGateFirst ==
    (response.op = "score_pick" /\ response.features.book_count < settings.min_books)
        => /\ response.result.decision = "DROP"
           /\ response.result.drop_reason = Some("min_books")
           /\ response.result.pqs = 0

\* features that fail the min_books gate and the sharp-book, start-time,
\* dispersion, agreement and EV gates as well, scored with a prior
C28_Witness ==
    /\ response.op = "score_pick"
    /\ response.features.book_count < settings.min_books
    /\ response.features.sharp_book_count < settings.sharp_book_min
    /\ response.features.time_to_start_minutes < 0
    /\ response.features.price_dispersion > settings.max_price_dispersion
    /\ response.features.agreement_strength < settings.min_agreement
    /\ response.features.ev < settings.ev_floor
    /\ response.prior # None
    /\ response.result.drop_reason = Some("min_books")

\* without a prior the score is the one the pick generator computes
ScoreWithoutPriorIsScorePick ==
    (response.op = "score_pick" /\ response.prior = None)
        => response.result = score_pick(response.features, response.sport_key)

(***************************************************************************)
(* Consensus over repeated captures: the odds of one game are ingested     *)
(* several times, a bookmaker quoting both sides at one capture and one    *)
(* side only at another.                                                   *)
(***************************************************************************)
MaxCaptures == 3

ConsensusFanduel == {H2hA, H2hB, H2hAwayOnly}

ConsensusDraftkings ==
    {<<>>, <<Book("draftkings", <<H2hA, Totals>>)>>, <<Book("draftkings", <<H2hAwayOnly>>)>>}

ConsensusPayloads ==
    {<<GameToday(<<Book("fanduel", <<fd>>)>> \o dk)>> :
        fd \in ConsensusFanduel, dk \in ConsensusDraftkings}

ConsensusInit ==
    /\ SchedInit
    /\ OddsInit
    /\ settings = [DefaultSettings EXCEPT !.consensus_min_books = 2]

ConsensusNext ==
    /\ now < MaxCaptures
    /\ \E events \in ConsensusPayloads : ingest_once("basketball_nba", events)

ConsensusSpec == ConsensusInit /\ [][ConsensusNext]_vars

ConsensusMarkets == {"h2h", "spreads", "totals"}

StoredRows(market_key) == market_snapshots(Session, "basketball_nba", market_key)

LatestRows(market_key) == get_latest_group_rows(Session, "basketball_nba", market_key)

\* the captures of a (game, bookmaker, point) partition of a market at which
\* the bookmaker was stored with every required side
FullCaptures(market_key, game_id, bookmaker, point) ==
    LET part == {r \in StoredRows(market_key) :
                    r.game_id = game_id /\ r.bookmaker = bookmaker /\ r.point = point}
    IN  {t \in {r.captured_at : r \in part} :
            required_sides(market_key) \subseteq {r.side : r \in {x \in part : x.captured_at = t}}}

LatestPerBookAndSide(market_key, game_id, point) ==
    LET part == {r \in StoredRows(market_key) : r.game_id = game_id /\ r.point = point}
    IN  {r \in part :
            \A x \in part :
                (x.bookmaker = r.bookmaker /\ x.side = r.side)
                    => x.captured_at <= r.captured_at}

\* C31: a later capture by a bookmaker that updates only one side is used
\* for best_decimal and best_book of that side: the best price of a view is
\* taken over the latest row per bookmaker and side, so a bookmaker lacking
\* a required side still contributes its quoted side to the best price
\* while it is excluded from included_books and consensus_probs.
C31_BestPriceOverLatestRowPerBookAndSide ==
    \A market_key \in ConsensusMarkets :
        \A k \in DOMAIN view_keys(LatestRows(market_key)) :
            LET key == view_keys(LatestRows(market_key))[k]
                result == compute_consensus_for_view(Session, LatestRows(market_key), key)
                latest == LatestPerBookAndSide(market_key, key[1], key[3])
            IN  \A side \in {r.side : r \in latest} :
                    /\ side \in DOMAIN result.best
                    /\ \A r \in latest :
                          r.side = side => r.decimal <= result.best[side].decimal
                    /\ \E r \in latest :
                          /\ r.side = side
                          /\ r.bookmaker = result.best[side].bookmaker
                          /\ r.decimal = result.best[side].decimal

(***************************************************************************)
(* Stakes (services/picks.py lines 101-145): one game quoted by three      *)
(* bookmakers, picks generated by request under several settings of the    *)
(* EV floor, the Kelly multiplier, the two Kelly caps and the bankroll.    *)
(***************************************************************************)
MaxStakeRequests == 3

StakePayloads ==
    {<<FirstEvent(ThreeBooks(<<H2hOutlier, TotalsOutlier>>))>>,
     <<FirstEvent(ThreeBooks(<<H2hB, TotalsConsensus>>))>>}

\* KELLY_CAP at its default or above KELLY_MAX_CAP
KellyCapChoices == {DefaultSettings.kelly_cap, ProbScale \div 10}

\* KELLY_MAX_CAP at its default or below KELLY_CAP
KellyMaxCapChoices == {DefaultSettings.kelly_max_cap, ProbScale \div 200}

\* KELLY_MULTIPLIER at its default, small, or zero
KellyMultiplierChoices == {DefaultSettings.kelly_multiplier, ProbScale \div 20, 0}

\* PICK_MIN_EV at its default, at zero, or at ten percent
PickMinEvChoices == {DefaultSettings.pick_min_ev, 0, ProbScale \div 10}

BankrollChoices == {DefaultSettings.bankroll_paper, 2500}

StakeSettings ==
    {[PicksSettings EXCEPT !.markets_unlock_clv_min = 0,
                           !.kelly_cap = kelly_cap, !.kelly_max_cap = kelly_max_cap,
                           !.kelly_multiplier = kelly_multiplier,
                           !.pick_min_ev = pick_min_ev,
                           !.bankroll_paper = bankroll_paper] :
        kelly_cap \in KellyCapChoices, kelly_max_cap \in KellyMaxCapChoices,
        kelly_multiplier \in KellyMultiplierChoices,
        pick_min_ev \in PickMinEvChoices, bankroll_paper \in BankrollChoices}

StakeInit ==
    /\ SchedInit
    /\ OddsInit
    /\ settings \in StakeSettings

StakeNext ==
    /\ now < MaxStakeRequests
    /\ \/ \E events \in StakePayloads : ingest_once("basketball_nba", events)
       \/ \E market_key \in {"h2h", "totals"} :
             generate_picks("basketball_nba", market_key)

StakeSpec == StakeInit /\ [][StakeNext]_vars

\* line 106-109 on the stored probability and price of a pick
pick_kelly(pick) ==
    Min2(settings.kelly_cap,
         kelly_fraction(pick.consensus_prob, pick.best_decimal,
                        settings.kelly_multiplier, settings.kelly_max_cap))

MaxRunLogClock == 4

RunLogTypes == {"ingest", "picks", "clv", "parlay"}

SupportedRunTypes == {"ingest", "picks", "clv"}

\* _log_run lines 42-52: the row with its stats_json and error columns
PipelineRunLogged(run_type, status, stats, error) ==
    [run_type |-> run_type, status |-> status, stats_json |-> stats, error |-> error]

\* what the session holds when run_ingest has returned
ingest_run_tables(run) ==
    [games |-> run.games, odds_groups |-> run.odds_groups,
     odds_snapshots |-> run.odds_snapshots, picks |-> picks,
     pick_scores |-> pick_scores, clock |-> run.clock + 1,
     summary |-> run_ingest_summary(run)]

\* what the session holds when run_picks or run_clv has returned
picks_run_tables(done, scores) ==
    [games |-> games, odds_groups |-> odds_groups, odds_snapshots |-> odds_snapshots,
     picks |-> done.picks, pick_scores |-> scores, clock |-> now + 1,
     summary |-> done.summary]

\* the session as run_and_log found it
UntouchedTables ==
    [games |-> games, odds_groups |-> odds_groups, odds_snapshots |-> odds_snapshots,
     picks |-> picks, pick_scores |-> pick_scores, clock |-> now + 1, summary |-> <<>>]

picks_run_done(done) == picks_run_tables(done, done.pick_scores)

clv_run_done(done) == picks_run_tables(done, pick_scores)

\* lines 267-274: the run function of the run_type
run_function(run_type, fetched, force) ==
    CASE run_type = "ingest" -> ingest_run_tables(run_ingest_result(fetched))
      [] run_type = "picks" -> picks_run_done(run_picks_result(now + 1))
      [] run_type = "clv" -> clv_run_done(run_clv_result(force, now + 1))
      [] OTHER -> UntouchedTables

\* str(exc), line 285
run_error_message(run_type) ==
    IF run_type \in SupportedRunTypes THEN "run function raised"
    ELSE "Unsupported run_type"

\* a log that reports ok whatever happened
logged_row_always_ok(run_type, outcome, stats) ==
    PipelineRunLogged(run_type, "ok", stats, None)

\* lines 275-282 and 286-294: the row by the way the run function ended
logged_row(run_type, outcome, stats) ==
    IF outcome = "raised"
    THEN PipelineRunLogged(run_type, "error", [error |-> run_error_message(run_type)],
                           Some(run_error_message(run_type)))
    ELSE PipelineRunLogged(run_type, "ok", stats, None)

\* run_and_log: the run function on the caller's session, one _log_run with
\* its commit, then the result returned or the exception raised again
run_and_log(run_type, fetched, force, outcome) ==
    /\ run_type \notin SupportedRunTypes => outcome = "raised"
    /\ \E done \in {IF outcome = "raised" THEN UntouchedTables
                    ELSE run_function(run_type, fetched, force)} :
          /\ now' = done.clock
          /\ games' = done.games
          /\ odds_groups' = done.odds_groups
          /\ odds_snapshots' = done.odds_snapshots
          /\ picks' = done.picks
          /\ pick_scores' = done.pick_scores
          /\ pipeline_runs' = Append(pipeline_runs,
                                     logged_row(run_type, outcome, done.summary))
          /\ response' = [op |-> "run_and_log", run_type |-> run_type,
                          raised |-> outcome = "raised",
                          result |-> IF outcome = "raised" THEN None
                                     ELSE Some(done.summary),
                          exc |-> IF outcome = "raised"
                                  THEN Some(run_error_message(run_type)) ELSE None]
    /\ UNCHANGED <<settings, eval_vars, run_lock, job_pc, http_pc, skip_log, calls>>

RunLogInit ==
    /\ SchedInit
    /\ OddsInit
    /\ settings = PicksSettings

RunLogNext ==
    /\ now < MaxRunLogClock
    /\ \/ \E run_type \in RunLogTypes, fetched \in CycleFetched, force \in BOOLEAN,
             outcome \in StepOutcomes :
             run_and_log(run_type, ("basketball_nba" :> fetched), force, outcome)
       \/ generate_picks("basketball_nba", "h2h")
       \/ clv_compute(0, FALSE)

RunLogSpec == RunLogInit /\ [][RunLogNext]_vars

RunAndLogStep == response'.op = "run_and_log" /\ now' # now

\* C33: every call of run_and_log appends exactly one PipelineRun row of the
\* requested run_type: with status ok and the run's stats iff the run
\* function returned, with status error and the exception's message iff it
\* raised (an unsupported run_type included), the exception then being
\* raised again to the caller; no operation updates or deletes an existing
\* PipelineRun row.
C33_RunAndLogAppendsOneRow ==
    [][/\ Len(pipeline_runs') >= Len(pipeline_runs)
       /\ SubSeq(pipeline_runs', 1, Len(pipeline_runs)) = pipeline_runs
       /\ RunAndLogStep =>
             LET row == pipeline_runs'[Len(pipeline_runs')]
             IN  /\ Len(pipeline_runs') = Len(pipeline_runs) + 1
                 /\ row.run_type = response'.run_type
                 /\ row.status \in {"ok", "error"}
                 /\ row.status = "ok" <=> ~response'.raised
                 /\ row.status = "ok" <=> response'.result # None
                 /\ row.status = "ok" =>
                       /\ Some(row.stats_json) = response'.result
                       /\ row.error = None
                 /\ row.status = "error" =>
                       /\ response'.exc # None
                       /\ row.error = response'.exc
                       /\ Some(row.stats_json) = Some([error |-> response'.exc[1]])
                 /\ response'.run_type \notin SupportedRunTypes => row.status = "error"
       /\ ~RunAndLogStep => pipeline_runs' = pipeline_runs]_vars

\* a picks run that returned is logged ok with its summary after a clv run
\* that raised and an unsupported run_type were logged as errors
C33_Witness ==
    /\ Len(pipeline_runs) = 3
    /\ pipeline_runs[1].run_type = "parlay" /\ pipeline_runs[1].status = "error"
    /\ pipeline_runs[2].run_type = "clv" /\ pipeline_runs[2].status = "error"
    /\ pipeline_runs[3].run_type = "picks" /\ pipeline_runs[3].status = "ok"
    /\ response.op = "run_and_log" /\ response.result = Some(pipeline_runs[3].stats_json)

(***************************************************************************)
(* A pick generation that fails part-way (services/picks.py lines 94-197,  *)
(* services/pipeline.py lines 95-101 and 275-282).  The Pick of a          *)
(* candidate is added and flushed at lines 148-149; its PickScore is added *)
(* at line 176, after get_latest_prior, compute_features and score_pick.   *)
(* An exception between the two leaves the loop with the Pick pending in   *)
(* the session; run_picks catches it at line 100 and goes on with the next *)
(* pair on the same session, and no caller rolls the session back.         *)
(***************************************************************************)
MaxFailRuns == 2

\* lines 94-150 for a candidate whose scoring raises: the candidate is
\* skipped as usual before the insert; otherwise its Pick is pending when
\* the exception leaves the loop
candidate_raising(g, rows, result, sport_key, side, probability, now_utc) ==
    LET best == result.best[side]
        ev == ev_percent(probability, best.decimal)
        kelly == Min2(settings.kelly_cap,
                      kelly_fraction(probability, best.decimal,
                                     settings.kelly_multiplier, settings.kelly_max_cap))
        found == existing_pick_ids(g.picks, result, side, best)
    IN  IF side \notin DOMAIN result.best \/ ev < settings.pick_min_ev \/ kelly <= 0
        THEN generate_candidate(g, rows, result, sport_key, side, probability, now_utc)
        ELSE [g EXCEPT !.picks = IF found # {} THEN @
                                 ELSE Append(@, Pick(result, side, probability, best,
                                                     ev, kelly, now_utc)),
                       !.raised = TRUE]

\* the loop of line 94 when the scoring of the candidate after fail_at
\* scored candidates raises
RECURSIVE generate_sides_until(_, _, _, _, _, _, _)
generate_sides_until(g, rows, result, sport_key, k, now_utc, fail_at) ==
    IF k > Len(result.sides) \/ g.raised THEN g
    ELSE generate_sides_until(
             IF g.summary.scored = fail_at
             THEN candidate_raising(g, rows, result, sport_key, result.sides[k],
                                    result.consensus_probs[1][k], now_utc)
             ELSE generate_candidate(g, rows, result, sport_key, result.sides[k],
                                     result.consensus_probs[1][k], now_utc),
             rows, result, sport_key, k + 1, now_utc, fail_at)

generate_result_until(g, rows, result, sport_key, now_utc, fail_at) ==
    IF result.consensus_probs = None \/ result.included_books < settings.pick_min_books
    THEN [g EXCEPT !.summary.skipped_insufficient_books = @ + 1]
    ELSE generate_sides_until(g, rows, result, sport_key, 1, now_utc, fail_at)

RECURSIVE generate_results_until(_, _, _, _, _, _)
generate_results_until(g, rows, results, sport_key, now_utc, fail_at) ==
    IF results = <<>> \/ g.raised THEN g
    ELSE generate_results_until(
             generate_result_until(g, rows, Head(results), sport_key, now_utc, fail_at),
             rows, Tail(results), sport_key, now_utc, fail_at)

\* the session when the generator ended: after the commit of line 234, or
\* with the rows the loop had added when the exception left it
generation_ended(g) ==
    IF g.raised
    THEN [picks |-> g.picks, pick_scores |-> g.pick_scores, summary |-> g.summary,
          raised |-> TRUE]
    ELSE [picks |-> commit_generation(g).picks,
          pick_scores |-> commit_generation(g).pick_scores,
          summary |-> commit_generation(g).summary, raised |-> FALSE]

generate_until_from_results(pk, sc, rows, results, sport_key, now_utc, fail_at) ==
    IF results = <<>>
    THEN [picks |-> pk, pick_scores |-> sc,
          summary |-> [base_summary EXCEPT !.total_views = 0], raised |-> FALSE]
    ELSE generation_ended(
             generate_results_until(
                 [picks |-> pk, pick_scores |-> sc,
                  summary |-> [base_summary EXCEPT !.total_views = Len(results)],
                  kept_candidates |-> <<>>, new_pick_ids |-> {}, raised |-> FALSE],
                 rows, results, sport_key, now_utc, fail_at))

generate_until_from_rows(st, pk, sc, rows, sport_key, now_utc, fail_at) ==
    generate_until_from_results(pk, sc, rows,
                                consensus_results(st, rows, view_keys(rows)),
                                sport_key, now_utc, fail_at)

\* generate_consensus_picks when the scoring of the candidate after fail_at
\* scored candidates raises
generate_consensus_picks_until(st, pk, sc, sport_key, market_key, now_utc, fail_at) ==
    generate_until_from_rows(st, pk, sc,
                             get_latest_group_rows(st, sport_key, market_key),
                             sport_key, now_utc, fail_at)

\* pipeline.py lines 97-101: per_sport_market gets the summary of a pair
\* that returned and errors the message of one that raised; the session is
\* the generator's in both cases
run_after_failing_pair(run, pair, done) ==
    [picks |-> done.picks, pick_scores |-> done.pick_scores,
     per_pair |-> IF done.raised THEN run.per_pair
                  ELSE (pair :> done.summary) @@ run.per_pair,
     errors |-> IF done.raised THEN run.errors \cup {pair} ELSE run.errors]

\* lines 95-101 when the generator of the pair fail.pair raises at fail.at
RECURSIVE run_picks_pairs_failing(_, _, _, _, _)
run_picks_pairs_failing(run, pairs, k, now_utc, fail) ==
    IF k > Len(pairs) THEN run
    ELSE run_picks_pairs_failing(
             run_after_failing_pair(
                 run, pairs[k],
                 generate_consensus_picks_until(Session, run.picks, run.pick_scores,
                                                pairs[k][1], pairs[k][2], now_utc,
                                                IF k = fail.pair THEN fail.at ELSE -1)),
             pairs, k + 1, now_utc, fail)

\* run_and_log(run_type = "picks") with a generator that raises: run_picks
\* returns its summary with the error, and _log_run commits the session
run_picks_failing(fail) ==
    /\ calls < MaxFailRuns
    /\ calls' = calls + 1
    /\ \E run \in {run_picks_pairs_failing(
                       [picks |-> picks, pick_scores |-> pick_scores,
                        per_pair |-> <<>>, errors |-> {}],
                       sport_market_pairs, 1, now + 1, fail)} :
          /\ now' = now + 1
          /\ picks' = run.picks
          /\ pick_scores' = run.pick_scores
          /\ pipeline_runs' = log_run(pipeline_runs, "picks", "ok")
          /\ response' = [op |-> "run_picks", fail |-> fail, errors |-> run.errors,
                          per_sport_market |-> run.per_pair]
    /\ UNCHANGED <<settings, eval_vars, odds_vars, run_lock, job_pc, http_pc, skip_log>>

\* the pair whose generator raises and the number of candidates scored
\* before the one whose scoring raises; pair 0 is a run without exception
FailChoices == {[pair |-> p, at |-> n] : p \in 0..2, n \in 0..1}

FailInit ==
    /\ SchedInit
    /\ OddsInit
    /\ settings \in {[PicksSettings EXCEPT !.min_books = min_books] :
                        min_books \in MinBooksChoices}

FailNext ==
    \/ /\ now < MaxFailRuns + 1
       /\ \E events \in PicksPayloads : ingest_once("basketball_nba", events)
    \/ \E fail \in FailChoices : run_picks_failing(fail)

FailSpec == FailInit /\ [][FailNext]_vars

\* C34 (as claimed): after any sequence of pick-generation runs, runs that
\* fail part-way included, every committed Pick has exactly one PickScore
\* of the configured pqs_version, created in the transaction that created
\* the pick, and no (pick, version) has more than one PickScore.
C34_EveryPickHasItsScore ==
    \A i \in 1..Len(picks) :
        /\ i \in DOMAIN pick_scores
        /\ pick_scores[i].version = settings.pqs_version
        /\ pick_scores[i].scored_at = picks[i].created_at

\* a generator that does not raise is generate_consensus_picks
GenerateUntilNeverIsGenerate ==
    \A market_key \in RequestedMarkets :
        LET done == generate_consensus_picks_until(Session, picks, pick_scores,
                                                   "basketball_nba", market_key,
                                                   now + 1, -1)
            plain == generate_consensus_picks(Session, picks, pick_scores,
                                              "basketball_nba", market_key, now + 1)
        IN  /\ ~done.raised
            /\ done.picks = plain.picks
            /\ done.pick_scores = plain.pick_scores
            /\ done.summary = plain.summary

(***************************************************************************)
(* Concurrent pick generations.  The scheduler's picks job runs on its own *)
(* session in the scheduler's thread (scheduler.py lines 57-68) and POST   *)
(* /picks/generate on the session of the request (api/picks.py lines       *)
(* 15-43); the request takes no lock.  Each generate_consensus_picks call  *)
(* is one transaction: its existence tests (picks.py lines 114-122) read   *)
(* the rows committed when they run, its rows are committed at line 234.   *)
(* response holds the transaction of each of the two in progress.          *)
(***************************************************************************)
MaxRaceClock == 4

IdleTx == [at |-> "idle", status |-> 0, errors |-> {}]

Race == IF response.op = "race" THEN response
        ELSE [op |-> "race", job |-> IdleTx, http |-> IdleTx]

\* models.py lines 76-84: the columns of uq_pick_snapshot
pick_key(pick) ==
    <<pick.game_id, pick.market_key, pick.point, pick.side, pick.best_book,
      pick.captured_at_max>>

\* a transaction of generate_consensus_picks: the tables its queries read
\* and what it holds at line 233
generation_tx(pk, sc, market_key, k, errors, done) ==
    [at |-> "generating", status |-> 0, errors |-> errors, market_key |-> market_key,
     k |-> k, seen |-> Len(pk), seen_scores |-> sc, done |-> done]

\* the Pick rows the transaction added (lines 129-149)
new_rows(tx) == SubSeq(tx.done.picks, tx.seen + 1, Len(tx.done.picks))

\* uq_pick_snapshot (models.py lines 76-84, migration 0003 lines 41-48): a
\* unique constraint over a nullable column compares no two nulls as equal,
\* so it rejects a row only when the point is not null
violates_uq_pick_snapshot(committed, row) ==
    /\ row.point # None
    /\ \E i \in 1..Len(committed) : pick_key(committed[i]) = pick_key(row)

\* the insert of the transaction's rows fails when one of them violates the
\* constraint against a row committed meanwhile
integrity_error(tx) ==
    \E k \in 1..Len(new_rows(tx)) : violates_uq_pick_snapshot(picks, new_rows(tx)[k])

\* the PickScore rows the transaction wrote, under the ids its Pick rows
\* get in the committed table
scores_after_commit(tx) ==
    LET offset == Len(picks) - tx.seen
        remap(i) == IF i > tx.seen THEN i + offset ELSE i
        written == {i \in DOMAIN tx.done.pick_scores :
                       \/ i \notin DOMAIN tx.seen_scores
                       \/ tx.done.pick_scores[i] # tx.seen_scores[i]}
    IN  [id \in DOMAIN pick_scores \cup {remap(i) : i \in written} |->
            IF \E i \in written : remap(i) = id
            THEN [tx.done.pick_scores[CHOOSE i \in written : remap(i) = id]
                     EXCEPT !.pick_id = id]
            ELSE pick_scores[id]]

\* line 234: the commit of the transaction, or the database's IntegrityError
commit_tx(tx) ==
    IF integrity_error(tx)
    THEN /\ UNCHANGED picks_vars
    ELSE /\ picks' = picks \o new_rows(tx)
         /\ pick_scores' = scores_after_commit(tx)

\* POST /picks/generate up to the generator's queries
generate_picks_begin(sport_key, market_key) ==
    /\ Race.http.at = "idle"
    /\ now < MaxRaceClock
    /\ now' = now + 1
    /\ \E gate \in {enforce_market_allowed(picks, market_key)},
          done \in {generate_consensus_picks(Session, picks, pick_scores,
                                            sport_key, market_key, now + 1)} :
          response' = [Race EXCEPT
                         !.http = IF refused(gate.allowed, settings.markets_unlock_mode)
                                  THEN [IdleTx EXCEPT !.status = 400]
                                  ELSE generation_tx(picks, pick_scores,
                                                     market_key, 1, {}, done)]
    /\ UNCHANGED <<settings, eval_vars, odds_vars, picks_vars, sched_vars>>

\* POST /picks/generate from the generator's commit: 200 with the summary,
\* or the IntegrityError as a server error
generate_picks_end ==
    /\ Race.http.at = "generating"
    /\ commit_tx(Race.http)
    /\ response' = [Race EXCEPT
                      !.http = [IdleTx EXCEPT
                                  !.status = IF integrity_error(Race.http)
                                             THEN 500 ELSE 200]]
    /\ UNCHANGED <<settings, eval_vars, now, odds_vars, sched_vars>>

\* the picks job up to the queries of its first (sport, market) pair
picks_job_begin ==
    /\ Race.job.at = "idle"
    /\ now < MaxRaceClock
    /\ now' = now + 1
    /\ \E done \in {generate_consensus_picks(Session, picks, pick_scores,
                                            sport_market_pairs[1][1],
                                            sport_market_pairs[1][2], now + 1)} :
          response' = [Race EXCEPT
                         !.job = generation_tx(picks, pick_scores,
                                               sport_market_pairs[1][2], 1, {}, done)]
    /\ UNCHANGED <<settings, eval_vars, odds_vars, picks_vars, sched_vars>>

\* the picks job from the commit of a pair: an exception goes to errors
\* (pipeline.py lines 100-101); the next pair starts, or the run is logged
picks_job_step ==
    /\ Race.job.at = "generating"
    /\ commit_tx(Race.job)
    /\ LET k == Race.job.k
           errors == IF integrity_error(Race.job)
                     THEN Race.job.errors \cup {sport_market_pairs[k]}
                     ELSE Race.job.errors
       IN  IF k < Len(sport_market_pairs)
           THEN /\ \E done \in {generate_consensus_picks(
                                    Session, picks', pick_scores',
                                    sport_market_pairs[k + 1][1],
                                    sport_market_pairs[k + 1][2], now)} :
                      response' =
                          [Race EXCEPT
                             !.job = generation_tx(picks', pick_scores',
                                                   sport_market_pairs[k + 1][2],
                                                   k + 1, errors, done)]
                /\ UNCHANGED pipeline_runs
           ELSE /\ response' = [Race EXCEPT !.job = [IdleTx EXCEPT !.errors = errors,
                                                                  !.status = 200]]
                /\ pipeline_runs' = log_run(pipeline_runs, "picks", "ok")
    /\ UNCHANGED <<settings, eval_vars, now, odds_vars, run_lock, job_pc, http_pc,
                   skip_log, calls>>

\* odds arrive while no generation is in progress
race_ingest(events) ==
    /\ Race.job.at = "idle" /\ Race.http.at = "idle"
    /\ now < MaxRaceClock
    /\ ingest_once("basketball_nba", events)

RaceSettings ==
    [PicksSettings EXCEPT !.markets_autorun = <<"h2h", "totals">>,
                          !.markets_unlock_clv_min = 0]

RaceInit ==
    /\ SchedInit
    /\ OddsInit
    /\ settings \in {RaceSettings, [RaceSettings EXCEPT !.markets_unlock_clv_min = 1]}

RaceNext ==
    \/ \E events \in StakePayloads : race_ingest(events)
    \/ \E market_key \in {"h2h", "totals"} : generate_picks_begin("basketball_nba", market_key)
    \/ generate_picks_end
    \/ picks_job_begin
    \/ picks_job_step

RaceSpec == RaceInit /\ [][RaceNext]_vars

\* C35 (as claimed): no two Pick rows ever share the uniqueness key (game,
\* market_key, point, side, best_book, captured_at_max), a null point
\* included, and a collision on the key is never surfaced as an error but
\* counted as skipped_existing, also when a scheduler picks job and a POST
\* /picks/generate request generate the same sport and market concurrently.
C35_PickKeyUniqueUnderConcurrency ==
    /\ \A i, j \in 1..Len(picks) : i # j => pick_key(picks[i]) # pick_key(picks[j])
    /\ Race.http.status # 500
    /\ Race.job.errors = {}

\* the part of C35 on rows with a point: the constraint keeps them unique
KeyWithPointIsUnique ==
    \A i, j \in 1..Len(picks) :
        (i # j /\ picks[i].point # None) => pick_key(picks[i]) # pick_key(picks[j])

\* two committed rows share a key with a null point
DuplicateNullPointKey ==
    \E i, j \in 1..Len(picks) : i # j /\ pick_key(picks[i]) = pick_key(picks[j])

\* a collision on a key with a point was surfaced as an error
CollisionSurfaced == Race.http.status = 500 \/ Race.job.errors # {}

(***************************************************************************)
(* The unlock specification: ingests, pick generations, closing line value *)
(* computations by date and by run, with and without force, and recomputes *)
(* of the priors, in any order, under each unlock threshold.               *)
(***************************************************************************)
MaxUnlockClock == 4

UnlockNext ==
    /\ now < MaxUnlockClock
    /\ \/ \E events \in ClvPayloads : ingest_once("basketball_nba", events)
       \/ generate_picks("basketball_nba", "h2h")
       \/ \E date_utc \in ClvDates : \E force \in BOOLEAN : clv_compute(date_utc, force)
       \/ \E force \in BOOLEAN : run_clv(force)
       \/ pqs_score

\* the settings of the closing line value specification with the window
\* and the minimum sample of the priors
UnlockSettings ==
    {[PicksSettings EXCEPT !.markets_unlock_clv_min = threshold]
         @@ [clv_prior_window |-> 2, clv_min_n_for_prior |-> 1] :
        threshold \in UnlockThresholds}

UnlockInit ==
    /\ SchedInit
    /\ OddsInit
    /\ settings \in UnlockSettings

UnlockSpec == UnlockInit /\ [][UnlockNext]_vars

\* C36: the market unlock is monotone: once allowed_markets has returned
\* [h2h, spreads, totals] no ingest, pick generation, closing line value
\* computation (with or without force) or recompute of the priors makes it
\* return [h2h] again, because the number of picks with clv_computed_at set
\* never decreases (no step clears the field of a pick or removes a pick).
C36_UnlockIsMonotone ==
    [][/\ ClvComputedPicks' >= ClvComputedPicks
       /\ Len(picks') >= Len(picks)
       /\ \A i \in DOMAIN picks :
             picks[i].clv_computed_at # None => picks'[i].clv_computed_at # None
       /\ allowed_markets(picks) = AllMarkets => allowed_markets(picks') = AllMarkets]_vars

\* the markets are unlocked by a computed closing line value and a later
\* recompute of the priors, which reads the computed picks, leaves them so
C36_Witness ==
    /\ response.op = "pqs_score"
    /\ clv_sport_stats # {}
    /\ ClvComputedPicks >= settings.markets_unlock_clv_min
    /\ allowed_markets(picks) = AllMarkets

\* C37 (as claimed): clv_computed_at is set on a pick only after its game's
\* commence_time has passed, whichever entry point computes the closing
\* line value: run_clv with or without force, or compute_clv_for_date.
C37_ClvOnlyAfterCommence ==
    [][\A i \in DOMAIN picks :
          picks'[i].clv_computed_at # picks[i].clv_computed_at
              => games[picks[i].game_id].commence_time <= now']_vars

\* the part of C37 on run_clv: its query keeps the commenced games only
RunClvOnlyAfterCommence ==
    [][response'.op = "run_clv" =>
          \A i \in DOMAIN picks :
              picks'[i].clv_computed_at # picks[i].clv_computed_at
                  => games[picks[i].game_id].commence_time <= now']_vars

\* POST /clv/compute set clv_computed_at on a pick of a game yet to commence
ComputedBeforeCommence ==
    /\ response.op = "clv_compute"
    /\ \E i \in DOMAIN picks :
          /\ picks[i].clv_computed_at = Some(now)
          /\ games[picks[i].game_id].commence_time > now

\* the OddsSnapshot rows of a quadruple, and the latest of them
RowsOf(snapshots, k) == {r \in snapshots : GroupOf(r) = k}

LatestRowsOf(snapshots, k) ==
    {r \in RowsOf(snapshots, k) :
        \A r2 \in RowsOf(snapshots, k) : r2.captured_at <= r.captured_at}

\* an OddsGroup is current: rows of its quadruple exist, and the most
\* recently captured of them carry its last_hash and last_captured_at
GroupIsCurrent(groups, snapshots, k) ==
    /\ RowsOf(snapshots, k) # {}
    /\ \A r \in LatestRowsOf(snapshots, k) :
          /\ r.group_hash = groups[k].last_hash
          /\ r.captured_at = groups[k].last_captured_at

\* the groups a payload quotes with the hash ingest computes for each
\* (ingest.py lines 171-191); a book with an outcome that cannot be
\* normalised has none
quoted_hashes(events) ==
    UNION {UNION {LET sps == book_side_prices(e, b)
                  IN  IF \E i \in 1..Len(sps) : side_price_raises(sps[i]) THEN {}
                      ELSE {LET members == SelectSeq(sps, LAMBDA sp :
                                               <<sp.market_key, sp.point>> = gkey)
                                side_prices ==
                                    sorted_by(members,
                                              list([i \in 1..Len(members) |->
                                                       str_rank(members[i].side)]))
                            IN  [k |-> <<e.id, gkey[1], b.key, gkey[2]>>,
                                 group_hash |-> build_normalized_group_representation(
                                                    e.id, gkey[1], b.key, gkey[2],
                                                    side_prices)] :
                               gkey \in Range(sorted_group_keys(sps))} :
                     b \in {b2 \in Range(e.bookmakers) :
                               \/ settings.bookmaker_whitelist = {}
                               \/ b2.key \in settings.bookmaker_whitelist}} :
              e \in Range(events)}

\* the step is an ingest call that returned
IngestReturned == response'.op = "ingest_once" /\ now' = now + 1 /\ ~response'.raised

\* the call wrote OddsSnapshot rows for the quoted group exactly when no
\* OddsGroup existed for it or its last_hash differed from the new hash
WrittenIffChanged(q) ==
    (RowsOf(odds_snapshots' \ odds_snapshots, q.k) # {})
        <=> (q.k \notin DOMAIN odds_groups \/ odds_groups[q.k].last_hash # q.group_hash)

\* C38 (as claimed): after any sequence of ingest calls each OddsGroup's
\* last_hash equals the group_hash of the most recently captured
\* OddsSnapshot rows of its quadruple and its last_captured_at equals their
\* captured_at; an ingest writes snapshots for a group iff no OddsGroup
\* exists for it or its last_hash differs from the new hash, so a price that
\* changes and later returns to an earlier value is written again.
C38_GroupTracksLatestSnapshots ==
    [][/\ \A k \in DOMAIN odds_groups' : GroupIsCurrent(odds_groups', odds_snapshots', k)
       /\ IngestReturned =>
             \A q \in quoted_hashes(response'.events) : WrittenIffChanged(q)]_vars

\* the same for the calls in which no event failed, on groups that were
\* current before the call
GroupTracksLatestWithoutFailure ==
    [][(/\ IngestReturned
        /\ response'.summary.errors_count = 0
        /\ \A k \in DOMAIN odds_groups : GroupIsCurrent(odds_groups, odds_snapshots, k))
       => /\ \A k \in DOMAIN odds_groups' :
                GroupIsCurrent(odds_groups', odds_snapshots', k)
          /\ \A q \in quoted_hashes(response'.events) : WrittenIffChanged(q)]_vars

\* an OddsGroup whose latest rows carry another hash than its last_hash
StaleGroup ==
    \E k \in DOMAIN odds_groups : ~GroupIsCurrent(odds_groups, odds_snapshots, k)

\* fanduel's h2h price was A, then B, then A again, and every call wrote rows
PriceReturnedAndWritten ==
    /\ now = 3
    /\ \E k \in DOMAIN odds_groups :
          /\ Cardinality({r.captured_at : r \in RowsOf(odds_snapshots, k)}) = 3
          /\ \E r1, r3 \in RowsOf(odds_snapshots, k) :
                r1.captured_at = 1 /\ r3.captured_at = 3 /\ r1.group_hash = r3.group_hash

\* the three closing fields of the pick's own book
BookClosingFields(pick) ==
    {pick.closing_book_decimal, pick.closing_book_implied_prob, pick.book_clv}

\* C39: in every reachable state each Pick has clv_computed_at set iff
\* market_clv is set iff closing_consensus_prob is set; its
\* closing_book_decimal, closing_book_implied_prob and book_clv are all null
\* or all set, and they are set only if clv_computed_at is set.
C39_ClvFieldsSetTogether ==
    \A i \in DOMAIN picks :
        /\ (picks[i].clv_computed_at # None) <=> (picks[i].market_clv # None)
        /\ (picks[i].market_clv # None) <=> (picks[i].closing_consensus_prob # None)
        /\ \/ BookClosingFields(picks[i]) = {None}
           \/ None \notin BookClosingFields(picks[i])
        /\ None \notin BookClosingFields(picks[i]) => picks[i].clv_computed_at # None

\* a recompute with force stored a pick whose book does not quote the
\* close: computed, with the three fields of the book null
C39_Witness ==
    /\ response.op \in {"clv_compute", "run_clv"}
    /\ response.force
    /\ \E i \in DOMAIN picks :
          /\ picks[i].clv_computed_at = Some(now)
          /\ picks[i].market_clv # None
          /\ BookClosingFields(picks[i]) = {None}

\* the gates of score_pick (pqs.py lines 64-82)
GateNames ==
    {"min_books", "sharp_book_min", "min_minutes_to_start", "max_price_dispersion",
     "min_agreement", "ev_floor"}

DropReasons == GateNames \cup {"below_min_pqs", "cap_throttle"}

\* the row is KEEP without drop_reason, or DROP with one of the reasons
DecisionIsConsistent(score) ==
    \/ score.decision = "KEEP" /\ score.drop_reason = None
    \/ /\ score.decision = "DROP"
       /\ score.drop_reason # None
       /\ score.drop_reason[1] \in DropReasons

\* C40: in every reachable state each stored PickScore has decision KEEP
\* with a null drop_reason or decision DROP with a non-null drop_reason (a
\* gate name, below_min_pqs or cap_throttle); score_pick and the cap
\* enforcement never store WARN, and a stored decision never changes from
\* DROP to KEEP.
C40_DecisionAndReasonAgree ==
    [][/\ \A id \in DOMAIN pick_scores : DecisionIsConsistent(pick_scores[id])
       /\ \A id \in DOMAIN pick_scores' : DecisionIsConsistent(pick_scores'[id])
       /\ \A id \in DOMAIN pick_scores :
             /\ id \in DOMAIN pick_scores'
             /\ pick_scores[id].decision = "DROP" => pick_scores'[id].decision = "DROP"]_vars

\* a KEEP row next to a row the cap rewrote from KEEP to DROP in an earlier
\* generation: a later generation left it DROP with cap_throttle
C40_Witness ==
    /\ response.op \in {"generate_picks", "run_picks"}
    /\ \E id \in DOMAIN pick_scores : pick_scores[id].decision = "KEEP"
    /\ \E id \in DOMAIN pick_scores :
          /\ pick_scores[id].decision = "DROP"
          /\ pick_scores[id].drop_reason = Some("cap_throttle")
          /\ pick_scores[id].scored_at < now

\* a row dropped by a gate of score_pick is stored
GateDropStored ==
    \E id \in DOMAIN pick_scores :
        /\ pick_scores[id].decision = "DROP"
        /\ pick_scores[id].drop_reason \in {Some(g) : g \in GateNames}

\* score_pick as a function: KEEP without a reason or DROP with one of them
ScorePickResultIsConsistent ==
    response.op = "score_pick" => DecisionIsConsistent(response.result)

(***************************************************************************)
(* Specifications.                                                         *)
(***************************************************************************)
Init == SchedInit /\ OddsInit /\ settings = DefaultSettings

Next == SchedNext /\ UNCHANGED db_vars

Spec == Init /\ [][Next]_vars

====
